---- MODULE Spec2Model ----
(***************************************************************************)
(* Remote-object bridge of the Chromium back end: the execution context   *)
(* delegate (evaluate, getProperties, handleJSONValue, releaseHandle) and  *)
(* the ElementHandle built on it (pointer actions, subtree queries,        *)
(* screenshot).  Every await of the source is a step of the model; the     *)
(* answers of the protocol session, the page and the input collaborators   *)
(* are inputs drawn from small sets.                                       *)
(***************************************************************************)
EXTENDS Integers, Sequences, FiniteSets, TLC

\* ------------------------------------------------------------------ bounds
\* largest width/height of a page viewport; element boxes go one beyond it
MaxDim == 3

\* most handles one frame's context gets to hold, the root element included
MaxHandles == 4

\* integer coordinates of the quads whose area is computed run from 0 to this
MaxCoord == 2

\* most arguments one call of select is given
MaxValues == 3

\* ----------------------------------------------------------------- helpers
\* null/undefined of a record-valued slot, and "no error" of a message slot
Null == [null |-> TRUE]

NoError == "none"

Min2(a, b) == IF a < b THEN a ELSE b

Max2(a, b) == IF a > b THEN a ELSE b

Min4(a, b, c, d) == Min2(Min2(a, b), Min2(c, d))

Max4(a, b, c, d) == Max2(Max2(a, b), Max2(c, d))

\* the protocol's 8-number quad of an axis-aligned rectangle
RectQuad(x, y, w, h) == <<x, y, x + w, y, x + w, y + h, x, y + h>>

\* Math.ceil on the integer pixel sizes the model draws
Ceil(n) == n

VARIABLES
  \* ---- ElementHandle.screenshot
  pageViewport,        \* Page.viewport(): [width, height] or Null
  shotPc,              \* position inside screenshot()
  needsViewportReset,  \* local of screenshot()
  viewport,            \* local of screenshot(): the viewport read at line 295
  shotBox,             \* local boundingBox of screenshot()
  clip,                \* clip rectangle handed to Page.screenshot
  captureOutcome,      \* "none" | "ok" | "threw": what Page.screenshot did
  shotError            \* NoError, or the message screenshot() rejected with

VARIABLES
  \* ---- ElementHandle._performPointerAction
  ptrPc,               \* position inside _performPointerAction
  ptrAction,           \* the low-level action of hover/click/dblclick/tripleclick
  ptrOptions,          \* options: relativePoint and modifiers
  r,                   \* local r: the last _viewportPointAndScroll result
  point,               \* local point
  restoreModifiers,    \* local restoreModifiers
  pressedModifiers,    \* Keyboard: the modifier keys held down
  modifiersAtStart,    \* the modifier keys held down when the action began
  elemOrigin,          \* page: min corner of the node's padding quad when last resolved
  actionPoint,         \* the point the low-level action was invoked with
  ptrLog,              \* requests and collaborator calls, in the order made
  ptrError             \* NoError, or the message the pointer action rejected with

VARIABLES
  \* ---- ExecutionContextDelegate: one call at a time
  contextFrame,        \* ExecutionContext.frame() is set
  destroyed,           \* the session has reported the context gone
  call                 \* the last call: its inputs, the request, how it ended

VARIABLES
  \* ---- handles of a frame's context and the subtree queries of an element
  handles,             \* the JSHandles created so far, the root element first
  releaseRequests,     \* per handle: Runtime.releaseObject requests sent for it
  held,                \* the handles the caller was given
  last                 \* the last query or disposal and how it ended

VARIABLES
  \* ---- ElementHandle._clickablePoint: its two requests in flight
  cpPc,                \* "idle", "pending" on Promise.all, "settled"
  cpBrowser,           \* what the browser answers to the two requests
  cpSent,              \* the requests issued, in order
  cpArrived,           \* the requests answered, in the order of arrival
  cpOutcome            \* Null, or the point returned or the error thrown

VARIABLES
  \* ---- ElementHandle._viewportPointAndScroll, applied to one set of inputs
  rpArguments,         \* the offset asked for and what the two requests answer
  rpReturned           \* Null, or what the call returned or threw

VARIABLES
  \* ---- computeQuadArea, applied to one quad
  areaQuad,            \* the quad handed in: four points
  areaReturned         \* Null, or the number returned

VARIABLES
  \* ---- ElementHandle.select, applied to one list of arguments
  selectValues,        \* the arguments of the call
  selectDone,          \* the call has returned or thrown
  selectOutcome        \* the assert that failed, or the options evaluated

VARIABLES
  \* ---- ElementHandle.fill, type and press
  keyPc,               \* "idle", "fillFunction", "focus", "keyboard", "done"
  keyOp,               \* which of the three is running
  keyValue,            \* the value, text or key passed in
  keyOptions,          \* the options type and press pass on to the keyboard
  fillResult,          \* what the evaluate of input.fillFunction produced
  keyLog,              \* evaluates and keyboard calls, in the order made
  keyError             \* NoError, or the message the operation rejected with

shotVars == <<pageViewport, shotPc, needsViewportReset, viewport, shotBox,
              clip, captureOutcome, shotError>>

ptrVars == <<ptrPc, ptrAction, ptrOptions, r, point, restoreModifiers,
             pressedModifiers, modifiersAtStart, elemOrigin, actionPoint,
             ptrLog, ptrError>>

callVars == <<contextFrame, destroyed, call>>

poolVars == <<handles, releaseRequests, held, last>>

clickVars == <<cpPc, cpBrowser, cpSent, cpArrived, cpOutcome>>

resolveVars == <<rpArguments, rpReturned>>

areaVars == <<areaQuad, areaReturned>>

selectVars == <<selectValues, selectDone, selectOutcome>>

keyVars == <<keyPc, keyOp, keyValue, keyOptions, fillResult, keyLog, keyError>>

vars ==
  <<shotVars, ptrVars, callVars, poolVars, clickVars, resolveVars, areaVars,
    selectVars, keyVars>>

\* what each operation leaves alone
notShot ==
  <<ptrVars, callVars, poolVars, clickVars,
    resolveVars, areaVars, selectVars, keyVars>>

notPtr ==
  <<shotVars, callVars, poolVars, clickVars,
    resolveVars, areaVars, selectVars, keyVars>>

notCall ==
  <<shotVars, ptrVars, poolVars, clickVars,
    resolveVars, areaVars, selectVars, keyVars>>

notPool ==
  <<shotVars, ptrVars, callVars, clickVars,
    resolveVars, areaVars, selectVars, keyVars>>

notClick ==
  <<shotVars, ptrVars, callVars, poolVars,
    resolveVars, areaVars, selectVars, keyVars>>

notResolve ==
  <<shotVars, ptrVars, callVars, poolVars,
    clickVars, areaVars, selectVars, keyVars>>

notKey ==
  <<shotVars, ptrVars, callVars, poolVars,
    clickVars, resolveVars, areaVars, selectVars>>

notSelect ==
  <<shotVars, ptrVars, callVars, poolVars,
    clickVars, resolveVars, areaVars, keyVars>>

notArea ==
  <<shotVars, ptrVars, callVars, poolVars,
    clickVars, resolveVars, selectVars, keyVars>>

\* ------------------------------------------------- in-page scroll-into-view
\* what the evaluate of _scrollIntoViewIfNeeded produced: the in-page routine
\* returned false, returned one of its two messages, or evaluate rejected
ScrollResults == {"false", "Node is detached from document",
                  "Node is not of type HTMLElement", "rejected"}

\* _scrollIntoViewIfNeeded: NoError when it returns, else the error it throws
scrollIntoViewIfNeeded(res) ==
  IF res = "rejected" THEN "evaluate rejected"
  ELSE IF res # "false" THEN res
  ELSE NoError

\* ---------------------------------------------------------------- screenshot
VisibilityMessage == "Node is either not visible or not an HTMLElement"

\* DOM.getBoxModel answers: Null when the request failed (caught by
\* _getBoxModel), else the border quad of the node
BoxModels ==
  {Null} \cup
  {[model |-> [border |-> RectQuad(x, y, w, h)]] :
     x \in 0..1, y \in 0..1, w \in 0..(MaxDim + 1), h \in 0..(MaxDim + 1)}

Viewports == {[width |-> w, height |-> h] : w \in 2..MaxDim, h \in 2..MaxDim}

boundingBox(result) ==
  IF result = Null THEN Null
  ELSE LET quad == result.model.border
           x == Min4(quad[1], quad[3], quad[5], quad[7])
           y == Min4(quad[2], quad[4], quad[6], quad[8])
           width == Max4(quad[1], quad[3], quad[5], quad[7]) - x
           height == Max4(quad[2], quad[4], quad[6], quad[8]) - y
       IN [x |-> x, y |-> y, width |-> width, height |-> height]

\* Page.setViewport on the restore path: the viewport the page ends up with
setViewportBack(saved, current, accepted) ==
  IF accepted THEN saved ELSE current

ShotFail(msg) ==
  /\ shotPc' = "done"
  /\ shotError' = msg

ShotIdle ==
  /\ shotPc = "idle"
  /\ needsViewportReset = FALSE
  /\ viewport = Null
  /\ shotBox = Null
  /\ clip = Null
  /\ captureOutcome = "none"
  /\ shotError = NoError

ShotInit ==
  /\ pageViewport \in {Null} \cup Viewports
  /\ ShotIdle

\* lines 290-293: first bounding box and its assert
ScreenshotStart(result) ==
  /\ shotPc = "idle"
  /\ needsViewportReset' = FALSE
  /\ shotBox' = boundingBox(result)
  /\ IF boundingBox(result) = Null
       THEN ShotFail(VisibilityMessage)
       ELSE shotPc' = "viewport" /\ shotError' = NoError
  /\ UNCHANGED <<pageViewport, viewport, clip, captureOutcome>>
  /\ UNCHANGED notShot

\* lines 295-305: enlarge the viewport when the box exceeds it
ScreenshotEnlarge(accepted) ==
  /\ shotPc = "viewport"
  /\ viewport' = pageViewport
  /\ IF pageViewport # Null /\ (shotBox.width > pageViewport.width
                                \/ shotBox.height > pageViewport.height)
       THEN IF accepted
              THEN /\ pageViewport' =
                        [width |-> Max2(pageViewport.width, Ceil(shotBox.width)),
                         height |-> Max2(pageViewport.height, Ceil(shotBox.height))]
                   /\ needsViewportReset' = TRUE
                   /\ shotPc' = "scroll"
                   /\ shotError' = NoError
              ELSE /\ ShotFail("setViewport rejected")
                   /\ UNCHANGED <<pageViewport, needsViewportReset>>
       ELSE /\ shotPc' = "scroll"
            /\ UNCHANGED <<pageViewport, needsViewportReset, shotError>>
  /\ UNCHANGED <<shotBox, clip, captureOutcome>>
  /\ UNCHANGED notShot

\* line 307
ScreenshotScrollIntoView(res) ==
  /\ shotPc = "scroll"
  /\ IF scrollIntoViewIfNeeded(res) # NoError
       THEN ShotFail(scrollIntoViewIfNeeded(res))
       ELSE shotPc' = "remeasure" /\ shotError' = NoError
  /\ UNCHANGED <<pageViewport, needsViewportReset, viewport, shotBox, clip,
                 captureOutcome>>
  /\ UNCHANGED notShot

\* lines 309-312: second bounding box and its three asserts
ScreenshotRemeasure(result) ==
  /\ shotPc = "remeasure"
  /\ shotBox' = boundingBox(result)
  /\ IF boundingBox(result) = Null THEN ShotFail(VisibilityMessage)
     ELSE IF boundingBox(result).width = 0 THEN ShotFail("Node has 0 width.")
     ELSE IF boundingBox(result).height = 0 THEN ShotFail("Node has 0 height.")
     ELSE shotPc' = "metrics" /\ shotError' = NoError
  /\ UNCHANGED <<pageViewport, needsViewportReset, viewport, clip,
                 captureOutcome>>
  /\ UNCHANGED notShot

\* lines 314-318: layout metrics and the clip rectangle
ScreenshotLayoutMetrics(metrics) ==
  /\ shotPc = "metrics"
  /\ IF metrics = Null
       THEN ShotFail("Page.getLayoutMetrics rejected") /\ UNCHANGED clip
       ELSE /\ clip' = [shotBox EXCEPT !.x = @ + metrics.pageX,
                                       !.y = @ + metrics.pageY]
            /\ shotPc' = "capture"
            /\ shotError' = NoError
  /\ UNCHANGED <<pageViewport, needsViewportReset, viewport, shotBox,
                 captureOutcome>>
  /\ UNCHANGED notShot

\* lines 320-322: the page screenshot; a rejection leaves screenshot() at once
ScreenshotCapture(captured) ==
  /\ shotPc = "capture"
  /\ IF captured
       THEN shotPc' = "restore" /\ captureOutcome' = "ok" /\ shotError' = NoError
       ELSE ShotFail("Page.screenshot rejected") /\ captureOutcome' = "threw"
  /\ UNCHANGED <<pageViewport, needsViewportReset, viewport, shotBox, clip>>
  /\ UNCHANGED notShot

\* lines 324-327: set the saved viewport back, then return the image
ScreenshotRestore(accepted) ==
  /\ shotPc = "restore"
  /\ IF needsViewportReset
       THEN /\ pageViewport' = setViewportBack(viewport, pageViewport, accepted)
            /\ IF accepted
                 THEN shotPc' = "done" /\ shotError' = NoError
                 ELSE ShotFail("setViewport rejected on restore")
       ELSE /\ shotPc' = "done"
            /\ UNCHANGED <<pageViewport, shotError>>
  /\ UNCHANGED <<needsViewportReset, viewport, shotBox, clip, captureOutcome>>
  /\ UNCHANGED notShot

\* the caller takes the result; the page keeps the viewport screenshot left
ScreenshotReturn ==
  /\ shotPc = "done"
  /\ shotPc' = "idle"
  /\ needsViewportReset' = FALSE
  /\ viewport' = Null
  /\ shotBox' = Null
  /\ clip' = Null
  /\ captureOutcome' = "none"
  /\ shotError' = NoError
  /\ UNCHANGED pageViewport
  /\ UNCHANGED notShot

LayoutOffsets == {Null} \cup {[pageX |-> px, pageY |-> py] : px \in 0..1, py \in 0..1}

NextShot ==
  \/ \E result \in BoxModels : ScreenshotStart(result)
  \/ \E accepted \in BOOLEAN : ScreenshotEnlarge(accepted)
  \/ \E res \in ScrollResults : ScreenshotScrollIntoView(res)
  \/ \E result \in BoxModels : ScreenshotRemeasure(result)
  \/ \E metrics \in LayoutOffsets : ScreenshotLayoutMetrics(metrics)
  \/ \E captured \in BOOLEAN : ScreenshotCapture(captured)
  \/ \E accepted \in BOOLEAN : ScreenshotRestore(accepted)
  \/ ScreenshotReturn

\* ------------------------------------------------------------------ geometry
Abs(n) == IF n < 0 THEN -n ELSE n

RECURSIVE Gcd(_, _)
Gcd(a, b) == IF b = 0 THEN a ELSE Gcd(b, a % b)

\* a JavaScript number with the exact value n/d, in lowest terms (the halves
\* and quarters the area and the centroid produce from integer coordinates)
Rat(n, d) == LET g == Gcd(Abs(n), d) IN [n |-> n \div g, d |-> d \div g]

Num(i) == [n |-> i, d |-> 1]

\* a > k for a number a and an integer k
RatGT(a, k) == a.n > k * a.d

fromProtocolQuad(quad) ==
  << [x |-> quad[1], y |-> quad[2]],
     [x |-> quad[3], y |-> quad[4]],
     [x |-> quad[5], y |-> quad[6]],
     [x |-> quad[7], y |-> quad[8]] >>

\* lines 208-211 with the points left where the browser reported them
intersectQuadUnclipped(quad, width, height) == quad

\* _intersectQuadWithViewport: each coordinate clamped into the viewport
intersectQuadWithViewport(quad, width, height) ==
  [i \in 1..Len(quad) |->
     [x |-> Min2(Max2(quad[i].x, 0), width),
      y |-> Min2(Max2(quad[i].y, 0), height)]]

\* lines 409-417 without Math.abs: the directed area
computeQuadAreaDirected(quad) ==
  LET cross(i) == LET p1 == quad[i]
                      p2 == quad[(i % Len(quad)) + 1]
                  IN p1.x * p2.y - p2.x * p1.y
      twice[i \in 0..Len(quad)] == IF i = 0 THEN 0 ELSE twice[i - 1] + cross(i)
  IN Rat(twice[Len(quad)], 2)

\* the shoelace sum; each term is halved in the source, which is exact here
computeQuadArea(quad) ==
  LET cross(i) == LET p1 == quad[i]
                      p2 == quad[(i % Len(quad)) + 1]
                  IN p1.x * p2.y - p2.x * p1.y
      twice[i \in 0..Len(quad)] == IF i = 0 THEN 0 ELSE twice[i - 1] + cross(i)
  IN Rat(Abs(twice[Len(quad)]), 2)

\* the layout viewport Page.getLayoutMetrics reports
layoutMetrics ==
  [layoutViewport |-> [clientWidth |-> MaxDim, clientHeight |-> MaxDim]]

LayoutMetricsAnswers == {Null, layoutMetrics}

\* line 115 with the filter keeping every quad of positive area
visibleQuadsAnyArea(result, metrics) ==
  LET clientWidth == metrics.layoutViewport.clientWidth
      clientHeight == metrics.layoutViewport.clientHeight
      clipped == [i \in 1..Len(result.quads) |->
                    intersectQuadWithViewport(fromProtocolQuad(result.quads[i]),
                                              clientWidth, clientHeight)]
  IN SelectSeq(clipped, LAMBDA q : RatGT(computeQuadArea(q), 0))

\* line 115 with the surviving quads in the reverse of the browser's order
visibleQuadsLastFirst(result, metrics) ==
  LET clientWidth == metrics.layoutViewport.clientWidth
      clientHeight == metrics.layoutViewport.clientHeight
      clipped == [i \in 1..Len(result.quads) |->
                    intersectQuadWithViewport(fromProtocolQuad(result.quads[i]),
                                              clientWidth, clientHeight)]
      kept == SelectSeq(clipped, LAMBDA q : RatGT(computeQuadArea(q), 1))
  IN [i \in 1..Len(kept) |-> kept[Len(kept) + 1 - i]]

\* lines 114-115: the quads as points, clipped to the layout viewport, those
\* too small to click into filtered out
visibleQuads(result, metrics) ==
  LET clientWidth == metrics.layoutViewport.clientWidth
      clientHeight == metrics.layoutViewport.clientHeight
      clipped == [i \in 1..Len(result.quads) |->
                    intersectQuadWithViewport(fromProtocolQuad(result.quads[i]),
                                              clientWidth, clientHeight)]
  IN SelectSeq(clipped, LAMBDA q : RatGT(computeQuadArea(q), 1))

\* _clickablePoint, given the settled DOM.getContentQuads (Null when it failed
\* and was caught) and Page.getLayoutMetrics (Null when it rejected)
clickablePoint(result, metrics) ==
  IF metrics = Null
    THEN [error |-> "Page.getLayoutMetrics rejected", point |-> Null]
  ELSE IF result = Null \/ Len(result.quads) = 0
    THEN [error |-> VisibilityMessage, point |-> Null]
  ELSE
    LET quads == visibleQuads(result, metrics)
    IN IF Len(quads) = 0
         THEN [error |-> VisibilityMessage, point |-> Null]
         ELSE LET quad == quads[1]
                  x == quad[1].x + quad[2].x + quad[3].x + quad[4].x
                  y == quad[1].y + quad[2].y + quad[3].y + quad[4].y
              IN [error |-> NoError, point |-> [x |-> Rat(x, 4), y |-> Rat(y, 4)]]

\* lines 138-139 with the padding quad's first corner taken for its minimum
viewportPointAndScrollFirstCorner(relativePoint, model, metrics) ==
  IF metrics = Null
    THEN [error |-> "Page.getLayoutMetrics rejected", point |-> Null,
          scrollX |-> 0, scrollY |-> 0]
  ELSE
    LET pt == IF model = Null
                THEN relativePoint
                ELSE LET quad == model.model.padding
                     IN [x |-> quad[1] + relativePoint.x,
                         y |-> quad[2] + relativePoint.y]
        clientWidth == metrics.layoutViewport.clientWidth
        clientHeight == metrics.layoutViewport.clientHeight
        scrollX1 == IF pt.x < 1 THEN pt.x - 1 ELSE 0
        scrollX == IF pt.x > clientWidth - 1 THEN pt.x - clientWidth + 1 ELSE scrollX1
        scrollY1 == IF pt.y < 1 THEN pt.y - 1 ELSE 0
        scrollY == IF pt.y > clientHeight - 1 THEN pt.y - clientHeight + 1 ELSE scrollY1
    IN [error |-> NoError, point |-> [x |-> Num(pt.x), y |-> Num(pt.y)],
        scrollX |-> scrollX, scrollY |-> scrollY]

\* _viewportPointAndScroll, given the DOM.getBoxModel answer (Null when it
\* failed and was caught) and Page.getLayoutMetrics (Null when it rejected)
viewportPointAndScroll(relativePoint, model, metrics) ==
  IF metrics = Null
    THEN [error |-> "Page.getLayoutMetrics rejected", point |-> Null,
          scrollX |-> 0, scrollY |-> 0]
  ELSE
    LET pt == IF model = Null
                THEN relativePoint
                ELSE LET quad == model.model.padding
                         x == Min4(quad[1], quad[3], quad[5], quad[7])
                         y == Min4(quad[2], quad[4], quad[6], quad[8])
                     IN [x |-> x + relativePoint.x, y |-> y + relativePoint.y]
        clientWidth == metrics.layoutViewport.clientWidth
        clientHeight == metrics.layoutViewport.clientHeight
        scrollX1 == IF pt.x < 1 THEN pt.x - 1 ELSE 0
        scrollX == IF pt.x > clientWidth - 1 THEN pt.x - clientWidth + 1 ELSE scrollX1
        scrollY1 == IF pt.y < 1 THEN pt.y - 1 ELSE 0
        scrollY == IF pt.y > clientHeight - 1 THEN pt.y - clientHeight + 1 ELSE scrollY1
    IN [error |-> NoError, point |-> [x |-> Num(pt.x), y |-> Num(pt.y)],
        scrollX |-> scrollX, scrollY |-> scrollY]

\* ------------------------------------------------------------ pointer action
ModifierKeys == {"Alt", "Shift"}

\* options.modifiers: absent, or the set of keys wanted down
NoModifiers == [given |-> FALSE, keys |-> {}]

ModifierOptions == {NoModifiers} \cup {[given |-> TRUE, keys |-> k] : k \in SUBSET ModifierKeys}

RelativePoints == {[x |-> 0, y |-> 0], [x |-> 1, y |-> 1]}

PointerOptions ==
  [relativePoint : {Null} \cup RelativePoints, modifiers : ModifierOptions]

\* where the node's padding quad may lie: in, on the edge of, or off the viewport
Origins == {[x |-> x, y |-> y] : x \in (-1)..(MaxDim + 1), y \in {0, MaxDim}}

\* the DOM.getBoxModel answer for the node at origin o (Null: request failed)
boxModelAt(o, available) ==
  IF available THEN [model |-> [padding |-> RectQuad(o.x, o.y, 1, 1)]] ELSE Null

\* DOM.getContentQuads answers: failed, no quad, or up to two quads, among them
\* one off the viewport, one of area 1, one of area 2, one partly clipped, one
\* reaching so far past the right edge that its own centre is off the viewport
QuadPool == {RectQuad(-1, 0, 1, 1), RectQuad(0, 0, 1, 1), RectQuad(0, 0, 2, 1),
             RectQuad(1, 1, MaxDim, MaxDim),
             RectQuad(MaxDim - 1, 0, 2 * MaxDim, MaxDim)}

ContentQuadAnswers ==
  {Null} \cup {[quads |-> <<>>]} \cup {[quads |-> <<a>>] : a \in QuadPool}
         \cup {[quads |-> <<a, b>>] : a \in QuadPool, b \in QuadPool}

\* hover, click, dblclick, tripleclick hand these to _performPointerAction
PointerActions == {"move", "click", "dblclick", "tripleclick"}

\* Keyboard._ensureModifiers: hold exactly the given keys, return those held before
ensureModifiers(pressed, modifiers) ==
  [restore |-> pressed, pressed |-> modifiers]

\* a variant that looks at the horizontal delta only
needsScrollHorizontal(res) == res.scrollX # 0

\* r.scrollX || r.scrollY
needsScroll(res) == res.scrollX # 0 \/ res.scrollY # 0

\* window.scrollBy(d): the distances a page can actually scroll by
ScrolledBy(d) == IF d >= 0 THEN 0..d ELSE d..0

\* a variant in which a failed step is noted and the action goes ahead
PtrFailAndGoOn(msg) ==
  /\ ptrPc' = "action"
  /\ ptrError' = msg

\* a rejected await or a throw ends _performPointerAction with that error
PtrFail(msg) ==
  /\ ptrPc' = "done"
  /\ ptrError' = msg

Logged(ev) == ptrLog' = Append(ptrLog, ev)

\* a variant that goes straight to the action
AfterPointToAction == "action"

\* lines 184-185: with the point in hand, modifiers come next if requested
AfterPoint == IF ptrOptions.modifiers.given THEN "modifiers" ELSE "action"

RestOrigin == [x |-> 1, y |-> 1]

PtrIdle ==
  /\ ptrPc = "idle"
  /\ ptrAction = "none"
  /\ ptrOptions = [relativePoint |-> Null, modifiers |-> NoModifiers]
  /\ r = Null
  /\ point = Null
  /\ restoreModifiers = NoModifiers
  /\ modifiersAtStart = {}
  /\ actionPoint = Null
  /\ ptrLog = <<>>
  /\ ptrError = NoError

PtrInit ==
  /\ PtrIdle
  /\ pressedModifiers \in SUBSET ModifierKeys
  /\ elemOrigin = RestOrigin

\* hover/click/dblclick/tripleclick (lines 214-228) enter _performPointerAction
PtrStart(action, options) ==
  /\ ptrPc = "idle"
  /\ ptrPc' = "scroll"
  /\ ptrAction' = action
  /\ ptrOptions' = options
  /\ modifiersAtStart' = pressedModifiers
  /\ UNCHANGED <<r, point, restoreModifiers, pressedModifiers, elemOrigin,
                 actionPoint, ptrLog, ptrError>>
  /\ UNCHANGED notPtr

\* line 162
PtrScrollIntoView(res) ==
  /\ ptrPc = "scroll"
  /\ Logged("scrollIntoView")
  /\ IF scrollIntoViewIfNeeded(res) # NoError
       THEN PtrFail(scrollIntoViewIfNeeded(res))
       ELSE /\ ptrPc' = IF ptrOptions.relativePoint # Null THEN "resolve" ELSE "scrollAgain"
            /\ UNCHANGED ptrError
  /\ UNCHANGED <<ptrAction, ptrOptions, r, point, restoreModifiers,
                 pressedModifiers, modifiersAtStart, elemOrigin, actionPoint>>
  /\ UNCHANGED notPtr

\* lines 165-166 and 179: first resolution of the relative point; the scroll
\* into view has left the node at some origin
PtrResolve(origin, available, metrics) ==
  /\ ptrPc = "resolve"
  /\ Logged("resolveRelativePoint")
  /\ elemOrigin' = origin
  /\ LET res == viewportPointAndScroll(ptrOptions.relativePoint,
                                       boxModelAt(origin, available), metrics)
     IN /\ r' = res
        /\ IF res.error # NoError THEN PtrFail(res.error) /\ UNCHANGED point
           ELSE IF needsScroll(res)
             THEN ptrPc' = "scrollBy" /\ UNCHANGED <<point, ptrError>>
           ELSE ptrPc' = AfterPoint /\ point' = res.point /\ UNCHANGED ptrError
  /\ UNCHANGED <<ptrAction, ptrOptions, restoreModifiers, pressedModifiers,
                 modifiersAtStart, actionPoint>>
  /\ UNCHANGED notPtr

\* lines 167-174: the induced in-page scroll
PtrScrollBy(res, dx, dy) ==
  /\ ptrPc = "scrollBy"
  /\ dx \in ScrolledBy(r.scrollX)
  /\ dy \in ScrolledBy(r.scrollY)
  /\ Logged("scrollBy")
  /\ IF res = "rejected" THEN PtrFail("evaluate rejected") /\ UNCHANGED elemOrigin
     ELSE IF res # "false" THEN PtrFail(res) /\ UNCHANGED elemOrigin
     ELSE /\ ptrPc' = "resolveAgain"
          /\ elemOrigin' = [x |-> elemOrigin.x - dx, y |-> elemOrigin.y - dy]
          /\ UNCHANGED ptrError
  /\ UNCHANGED <<ptrAction, ptrOptions, r, point, restoreModifiers,
                 pressedModifiers, modifiersAtStart, actionPoint>>
  /\ UNCHANGED notPtr

\* lines 175-179: the one re-resolution
PtrResolveAgain(available, metrics) ==
  /\ ptrPc = "resolveAgain"
  /\ Logged("resolveRelativePoint")
  /\ LET res == viewportPointAndScroll(ptrOptions.relativePoint,
                                       boxModelAt(elemOrigin, available), metrics)
     IN /\ r' = res
        /\ IF res.error # NoError THEN PtrFail(res.error) /\ UNCHANGED point
           ELSE IF needsScroll(res)
             THEN PtrFail("Failed to scroll relative point into viewport")
                  /\ UNCHANGED point
           ELSE ptrPc' = AfterPoint /\ point' = res.point /\ UNCHANGED ptrError
  /\ UNCHANGED <<ptrAction, ptrOptions, restoreModifiers, pressedModifiers,
                 modifiersAtStart, elemOrigin, actionPoint>>
  /\ UNCHANGED notPtr

\* line 181
PtrScrollIntoViewAgain(res) ==
  /\ ptrPc = "scrollAgain"
  /\ Logged("scrollIntoView")
  /\ IF scrollIntoViewIfNeeded(res) # NoError
       THEN PtrFail(scrollIntoViewIfNeeded(res))
       ELSE ptrPc' = "clickable" /\ UNCHANGED ptrError
  /\ UNCHANGED <<ptrAction, ptrOptions, r, point, restoreModifiers,
                 pressedModifiers, modifiersAtStart, elemOrigin, actionPoint>>
  /\ UNCHANGED notPtr

\* line 182
PtrClickablePoint(result, metrics) ==
  /\ ptrPc = "clickable"
  /\ Logged("clickablePoint")
  /\ LET res == clickablePoint(result, metrics)
     IN IF res.error # NoError THEN PtrFail(res.error) /\ UNCHANGED point
        ELSE ptrPc' = AfterPoint /\ point' = res.point /\ UNCHANGED ptrError
  /\ UNCHANGED <<ptrAction, ptrOptions, r, restoreModifiers, pressedModifiers,
                 modifiersAtStart, elemOrigin, actionPoint>>
  /\ UNCHANGED notPtr

\* lines 184-186: capture and apply the requested modifiers
PtrEnsureModifiers(accepted) ==
  /\ ptrPc = "modifiers"
  /\ Logged("ensureModifiers")
  /\ IF accepted
       THEN LET e == ensureModifiers(pressedModifiers, ptrOptions.modifiers.keys)
            IN /\ restoreModifiers' = [given |-> TRUE, keys |-> e.restore]
               /\ pressedModifiers' = e.pressed
               /\ ptrPc' = "action"
               /\ UNCHANGED ptrError
       ELSE /\ PtrFail("_ensureModifiers rejected")
            /\ UNCHANGED <<restoreModifiers, pressedModifiers>>
  /\ UNCHANGED <<ptrAction, ptrOptions, r, point, modifiersAtStart, elemOrigin,
                 actionPoint>>
  /\ UNCHANGED notPtr

\* line 187: the caller-supplied low-level action
PtrInvokeAction(accepted) ==
  /\ ptrPc = "action"
  /\ Logged(ptrAction)
  /\ actionPoint' = point
  /\ IF accepted
       THEN /\ ptrPc' = IF restoreModifiers.given THEN "restore" ELSE "done"
            /\ UNCHANGED ptrError
       ELSE PtrFail("action rejected")
  /\ UNCHANGED <<ptrAction, ptrOptions, r, point, restoreModifiers,
                 pressedModifiers, modifiersAtStart, elemOrigin>>
  /\ UNCHANGED notPtr

\* a variant that re-applies the requested modifiers instead of the captured ones
PtrRestoreRequested(accepted) ==
  /\ ptrPc = "restore"
  /\ Logged("restoreModifiers")
  /\ IF accepted
       THEN /\ pressedModifiers' =
                 ensureModifiers(pressedModifiers, ptrOptions.modifiers.keys).pressed
            /\ ptrPc' = "done"
            /\ UNCHANGED ptrError
       ELSE PtrFail("_ensureModifiers rejected") /\ UNCHANGED pressedModifiers
  /\ UNCHANGED <<ptrAction, ptrOptions, r, point, restoreModifiers,
                 modifiersAtStart, elemOrigin, actionPoint>>
  /\ UNCHANGED notPtr

\* lines 188-189: put the captured modifiers back
PtrRestoreModifiers(accepted) ==
  /\ ptrPc = "restore"
  /\ Logged("restoreModifiers")
  /\ IF accepted
       THEN /\ pressedModifiers' =
                 ensureModifiers(pressedModifiers, restoreModifiers.keys).pressed
            /\ ptrPc' = "done"
            /\ UNCHANGED ptrError
       ELSE PtrFail("_ensureModifiers rejected") /\ UNCHANGED pressedModifiers
  /\ UNCHANGED <<ptrAction, ptrOptions, r, point, restoreModifiers,
                 modifiersAtStart, elemOrigin, actionPoint>>
  /\ UNCHANGED notPtr

\* the caller takes the outcome; the keyboard stays as the action left it
PtrReturn ==
  /\ ptrPc = "done"
  /\ ptrPc' = "idle"
  /\ ptrAction' = "none"
  /\ ptrOptions' = [relativePoint |-> Null, modifiers |-> NoModifiers]
  /\ r' = Null
  /\ point' = Null
  /\ restoreModifiers' = NoModifiers
  /\ modifiersAtStart' = {}
  /\ actionPoint' = Null
  /\ ptrLog' = <<>>
  /\ ptrError' = NoError
  /\ elemOrigin' = RestOrigin
  /\ UNCHANGED pressedModifiers
  /\ UNCHANGED notPtr

\* every distance a point of Origins plus RelativePoints can be off by
ScrollRange == (-(MaxDim + 2))..(MaxDim + 2)

ScrollByResults == {"false", "Node does not have a containing window", "rejected"}

NextPtr ==
  \/ \E action \in PointerActions, options \in PointerOptions : PtrStart(action, options)
  \/ \E res \in ScrollResults : PtrScrollIntoView(res)
  \/ \E origin \in Origins, available \in BOOLEAN, metrics \in LayoutMetricsAnswers :
       PtrResolve(origin, available, metrics)
  \/ \E res \in ScrollByResults, dx \in ScrollRange, dy \in ScrollRange :
       PtrScrollBy(res, dx, dy)
  \/ \E available \in BOOLEAN, metrics \in LayoutMetricsAnswers :
       PtrResolveAgain(available, metrics)
  \/ \E res \in ScrollResults : PtrScrollIntoViewAgain(res)
  \/ \E result \in ContentQuadAnswers, metrics \in LayoutMetricsAnswers :
       PtrClickablePoint(result, metrics)
  \/ \E accepted \in BOOLEAN : PtrEnsureModifiers(accepted)
  \/ \E accepted \in BOOLEAN : PtrInvokeAction(accepted)
  \/ \E accepted \in BOOLEAN : PtrRestoreModifiers(accepted)
  \/ PtrReturn

\* ------------------------------------------------------------ clickable point
\* the two requests of _clickablePoint, in the order the array of line 104
\* issues them
ContentQuads == "DOM.getContentQuads"

LayoutMetrics == "Page.getLayoutMetrics"

Requests == <<ContentQuads, LayoutMetrics>>

RejectionOf(method) ==
  IF method = LayoutMetrics THEN "Page.getLayoutMetrics rejected"
  ELSE "DOM.getContentQuads rejected"

\* lines 105-107 without the catch: a failed request rejects the promise
contentQuadsPromiseUncaught(answer) ==
  [rejected |-> answer = Null, value |-> answer]

\* lines 105-107: .catch(debugError) fulfils with undefined when the request fails
contentQuadsPromise(answer) ==
  [rejected |-> FALSE, value |-> answer]

\* line 108: the request's own promise
layoutMetricsPromise(answer) ==
  [rejected |-> answer = Null, value |-> answer]

promiseOf(method, browser) ==
  IF method = ContentQuads THEN contentQuadsPromise(browser.result)
  ELSE layoutMetricsPromise(browser.metrics)

\* Promise.all over the two promises once the responses of `arrived` are in:
\* rejected with the first rejection to arrive, fulfilled when both are in
promiseAll(browser, arrived) ==
  LET rejections == {i \in 1..Len(arrived) : promiseOf(arrived[i], browser).rejected}
  IN IF rejections # {}
       THEN LET first == CHOOSE i \in rejections : \A j \in rejections : i <= j
            IN [state |-> "rejected", reason |-> RejectionOf(arrived[first])]
     ELSE IF Len(arrived) = Len(Requests)
       THEN [state |-> "fulfilled", reason |-> NoError]
     ELSE [state |-> "pending", reason |-> NoError]

\* lines 104-128 once Promise.all has settled
clickablePointAfter(browser, arrived) ==
  LET all == promiseAll(browser, arrived)
  IN IF all.state = "rejected" THEN [error |-> all.reason, point |-> Null]
     ELSE clickablePoint(promiseOf(ContentQuads, browser).value,
                         promiseOf(LayoutMetrics, browser).value)

NoBrowser == [result |-> Null, metrics |-> Null]

ClickIdle ==
  /\ cpPc = "idle"
  /\ cpBrowser = NoBrowser
  /\ cpSent = <<>>
  /\ cpArrived = <<>>
  /\ cpOutcome = Null

ClickInit == ClickIdle

\* line 104-109: both requests are sent while the array is built; the browser
\* will answer them with result and metrics
ClickablePointStart(result, metrics) ==
  /\ cpPc = "idle"
  /\ cpPc' = "pending"
  /\ cpBrowser' = [result |-> result, metrics |-> metrics]
  /\ cpSent' = Requests
  /\ cpArrived' = <<>>
  /\ cpOutcome' = Null
  /\ UNCHANGED notClick

\* the response to one of the requests arrives
ClickablePointResponse(method) ==
  /\ cpPc = "pending"
  /\ \E i \in 1..Len(cpSent) : cpSent[i] = method
  /\ \A i \in 1..Len(cpArrived) : cpArrived[i] # method
  /\ cpArrived' = Append(cpArrived, method)
  /\ UNCHANGED <<cpPc, cpBrowser, cpSent, cpOutcome>>
  /\ UNCHANGED notClick

\* the await of line 104 resumes, and lines 110-128 run
ClickablePointSettle ==
  /\ cpPc = "pending"
  /\ promiseAll(cpBrowser, cpArrived).state # "pending"
  /\ cpPc' = "settled"
  /\ cpOutcome' = clickablePointAfter(cpBrowser, cpArrived)
  /\ UNCHANGED <<cpBrowser, cpSent, cpArrived>>
  /\ UNCHANGED notClick

ClickablePointReturn ==
  /\ cpPc = "settled"
  /\ cpPc' = "idle"
  /\ cpBrowser' = NoBrowser
  /\ cpSent' = <<>>
  /\ cpArrived' = <<>>
  /\ cpOutcome' = Null
  /\ UNCHANGED notClick

NextClick ==
  \/ \E result \in ContentQuadAnswers, metrics \in LayoutMetricsAnswers :
       ClickablePointStart(result, metrics)
  \/ \E method \in {ContentQuads, LayoutMetrics} : ClickablePointResponse(method)
  \/ ClickablePointSettle
  \/ ClickablePointReturn

\* ------------------------------------------------------------- relative point
\* the offsets a caller asks for, from the node's padding corner
Offsets == {[x |-> x, y |-> y] : x \in (-1)..1, y \in (-1)..1}

\* a padding quad whose first corner is not its minimum corner: a square
\* standing on a vertex, spanning (x, y) to (x + 2, y + 2)
DiamondQuad(x, y) == <<x + 1, y, x + 2, y + 1, x + 1, y + 2, x, y + 1>>

\* DOM.getBoxModel answers: failed (Null), or a padding quad in, on the edge
\* of, or off the viewport
PaddingModels ==
  {Null}
    \cup {[model |-> [padding |-> RectQuad(x, y, 1, 1)]] :
            x \in (-1)..(MaxDim + 1), y \in (-1)..(MaxDim + 1)}
    \cup {[model |-> [padding |-> DiamondQuad(x, y)]] :
            x \in (-1)..(MaxDim + 1), y \in (-1)..(MaxDim + 1)}

NoArguments == [relativePoint |-> Null, model |-> Null, metrics |-> Null]

ResolveIdle == rpArguments = NoArguments /\ rpReturned = Null

\* a caller is about to resolve some offset against some page
ResolveInit ==
  /\ rpArguments \in [relativePoint : Offsets, model : PaddingModels,
                      metrics : LayoutMetricsAnswers]
  /\ rpReturned = Null

\* lines 131-158
ResolveRelativePoint ==
  /\ rpReturned = Null
  /\ rpArguments # NoArguments
  /\ rpReturned' = viewportPointAndScroll(rpArguments.relativePoint,
                                          rpArguments.model, rpArguments.metrics)
  /\ UNCHANGED rpArguments
  /\ UNCHANGED notResolve

NextResolve == ResolveRelativePoint

\* ------------------------------------------------------------------ quad area
\* points with integer coordinates, and the quads over them
GridPoints == {[x |-> x, y |-> y] : x \in 0..MaxCoord, y \in 0..MaxCoord}

GridQuads == [1..4 -> GridPoints]

NoQuad == <<>>

AreaIdle == areaQuad = NoQuad /\ areaReturned = Null

\* some quad is about to be measured
AreaInit == areaQuad \in GridQuads /\ areaReturned = Null

\* lines 408-418
ComputeQuadArea ==
  /\ areaQuad # NoQuad
  /\ areaReturned = Null
  /\ areaReturned' = computeQuadArea(areaQuad)
  /\ UNCHANGED areaQuad
  /\ UNCHANGED notArea

NextArea == ComputeQuadArea

\* --------------------------------------------------------------------- select
\* a JavaScript primitive: what typeof says of it and how it prints
Primitive(type, text) == [type |-> type, text |-> text]

Undefined == Primitive("undefined", "undefined")

StringB == Primitive("string", "b")

StringSecond == Primitive("string", "Second")

NumberTwo == Primitive("number", "2")

\* an argument of select: a primitive (its fields undefined), an option
\* object with some of value, label, index, or an ElementHandle
SelectValue(type, text, value, label, index, element) ==
  [type |-> type, text |-> text, value |-> value, label |-> label,
   index |-> index, element |-> element]

PrimitiveValue(p) == SelectValue(p.type, p.text, Undefined, Undefined, Undefined, FALSE)

SelectOption(value, label, index) ==
  SelectValue("object", "[object Object]", value, label, index, FALSE)

ElementValue ==
  SelectValue("object", "JSHandle@node", Undefined, Undefined, Undefined, TRUE)

\* the arguments drawn: a string, a number, an element, and option objects
\* with well-typed and ill-typed fields
SelectValues ==
  {PrimitiveValue(StringB), PrimitiveValue(NumberTwo), ElementValue,
   SelectOption(Undefined, Undefined, Undefined),
   SelectOption(StringB, Undefined, Undefined),
   SelectOption(NumberTwo, Undefined, Undefined),
   SelectOption(Undefined, StringSecond, Undefined),
   SelectOption(Undefined, NumberTwo, Undefined),
   SelectOption(Undefined, Undefined, NumberTwo),
   SelectOption(Undefined, Undefined, StringB),
   SelectOption(StringB, StringSecond, NumberTwo)}

\* line 231: typeof value === 'object' ? value : { value }
toOption(value) ==
  IF value.type = "object" THEN value
  ELSE SelectOption(Primitive(value.type, value.text), Undefined, Undefined)

\* the message of a failed assert of lines 236, 238, 240
AssertionError(what, found) == [message |-> what, found |-> found.text, type |-> found.type]

NoAssertionError == [message |-> NoError, found |-> "", type |-> ""]

\* lines 233-240 for one option
validateOption(option) ==
  IF option.element THEN NoAssertionError
  ELSE IF option.value # Undefined /\ option.value.type # "string"
    THEN AssertionError("Values must be strings", option.value)
  ELSE IF option.label # Undefined /\ option.label.type # "string"
    THEN AssertionError("Labels must be strings", option.label)
  ELSE IF option.index # Undefined /\ option.index.type # "number"
    THEN AssertionError("Indices must be numbers", option.index)
  ELSE NoAssertionError

\* lines 230-242: the options are validated in order, the first failed assert
\* is thrown; else the in-page selectFunction is evaluated with the options
select(values) ==
  LET options == [i \in 1..Len(values) |-> toOption(values[i])]
      failed == {i \in 1..Len(options) : validateOption(options[i]) # NoAssertionError}
  IN IF failed # {}
       THEN LET first == CHOOSE i \in failed : \A j \in failed : i <= j
            IN [error |-> validateOption(options[first]), evaluated |-> FALSE,
                options |-> <<>>]
     ELSE [error |-> NoAssertionError, evaluated |-> TRUE, options |-> options]

SelectArguments == UNION {[1..n -> SelectValues] : n \in 1..MaxValues}

NoSelect == [error |-> NoAssertionError, evaluated |-> FALSE, options |-> <<>>]

SelectIdle == selectValues = <<>> /\ selectDone = FALSE /\ selectOutcome = NoSelect

\* a caller is about to select with some arguments
SelectInit ==
  /\ selectValues \in SelectArguments
  /\ selectDone = FALSE
  /\ selectOutcome = NoSelect

\* lines 230-243
Select ==
  /\ selectValues # <<>>
  /\ ~selectDone
  /\ selectDone' = TRUE
  /\ selectOutcome' = select(selectValues)
  /\ UNCHANGED selectValues
  /\ UNCHANGED notSelect

NextSelect == Select

\* ------------------------------------------------------------ keyboard input
\* fill, type and press, and the keyboard method each of them ends with
KeyOperations == {"fill", "type", "press"}

keyboardMethod(op) ==
  IF op = "fill" THEN "sendCharacters" ELSE IF op = "type" THEN "type" ELSE "press"

KeyboardMethods == {keyboardMethod(op) : op \in KeyOperations}

\* the value, text or key a caller passes
KeyValues ==
  {Primitive("string", "a"), Primitive("string", "ab"), Primitive("string", ""),
   Primitive("number", "2"), Undefined}

\* the options of type and press: none, or a delay between the keys
NoKeyOptions == [given |-> FALSE, delay |-> 0]

KeyOptions == {NoKeyOptions, [given |-> TRUE, delay |-> 1]}

\* what the evaluate of input.fillFunction produced: the routine returned
\* false, returned one of its messages, or evaluate rejected
FillResults == {"false", "Element is not an <input>", "Cannot fill a disabled input",
                "rejected"}

\* line 246: the message of the failed assert
ValueMustBeString == "Value must be string"

\* a variant in which a failed step is noted and the keyboard is used anyway
KeyFailAndGoOn(msg) ==
  /\ keyPc' = "keyboard"
  /\ keyError' = msg

\* a rejected await or a throw ends the operation with that error
KeyFail(msg) ==
  /\ keyPc' = "done"
  /\ keyError' = msg

KeyLogged(ev) == keyLog' = Append(keyLog, ev)

KeyIdle ==
  /\ keyPc = "idle"
  /\ keyOp = "none"
  /\ keyValue = Undefined
  /\ keyOptions = NoKeyOptions
  /\ fillResult = "none"
  /\ keyLog = <<>>
  /\ keyError = NoError

KeyInit == KeyIdle

\* lines 245-246, 264, 269: fill asserts its value is a string before anything
\* else; type and press go straight to focus
KeyStart(op, value, options) ==
  /\ keyPc = "idle"
  /\ op = "fill" => options = NoKeyOptions
  /\ keyOp' = op
  /\ keyValue' = value
  /\ keyOptions' = options
  /\ IF op = "fill" /\ value.type # "string"
       THEN KeyFail(ValueMustBeString)
       ELSE /\ keyPc' = IF op = "fill" THEN "fillFunction" ELSE "focus"
            /\ UNCHANGED keyError
  /\ UNCHANGED <<fillResult, keyLog>>
  /\ UNCHANGED notKey

\* lines 247-249: the in-page precondition and clear routine
KeyFillFunction(res) ==
  /\ keyPc = "fillFunction"
  /\ KeyLogged("fillFunction")
  /\ fillResult' = res
  /\ IF res = "rejected" THEN KeyFail("evaluate rejected")
     ELSE IF res # "false" THEN KeyFail(res)
     ELSE keyPc' = "focus" /\ UNCHANGED keyError
  /\ UNCHANGED <<keyOp, keyValue, keyOptions>>
  /\ UNCHANGED notKey

\* lines 260-262: focus() evaluates element.focus()
KeyFocus(accepted) ==
  /\ keyPc = "focus"
  /\ KeyLogged("focus")
  /\ IF accepted THEN keyPc' = "keyboard" /\ UNCHANGED keyError
     ELSE KeyFail("evaluate rejected")
  /\ UNCHANGED <<keyOp, keyValue, keyOptions, fillResult>>
  /\ UNCHANGED notKey

\* lines 251, 266, 271: the keyboard collaborator
KeyDispatch(accepted) ==
  /\ keyPc = "keyboard"
  /\ KeyLogged(keyboardMethod(keyOp))
  /\ IF accepted THEN keyPc' = "done" /\ UNCHANGED keyError
     ELSE KeyFail("keyboard rejected")
  /\ UNCHANGED <<keyOp, keyValue, keyOptions, fillResult>>
  /\ UNCHANGED notKey

KeyReturn ==
  /\ keyPc = "done"
  /\ keyPc' = "idle"
  /\ keyOp' = "none"
  /\ keyValue' = Undefined
  /\ keyOptions' = NoKeyOptions
  /\ fillResult' = "none"
  /\ keyLog' = <<>>
  /\ keyError' = NoError
  /\ UNCHANGED notKey

NextKey ==
  \/ \E op \in KeyOperations, value \in KeyValues, options \in KeyOptions :
       KeyStart(op, value, options)
  \/ \E res \in FillResults : KeyFillFunction(res)
  \/ \E accepted \in BOOLEAN : KeyFocus(accepted)
  \/ \E accepted \in BOOLEAN : KeyDispatch(accepted)
  \/ KeyReturn

\* --------------------------------------------------------- protocol values
MainContext == "main"

OtherContext == "other"

\* Protocol.Runtime.RemoteObject; objectId 0 and the empty string mean absent
RemoteObject(type, subtype, objectId, value, unserializableValue) ==
  [type |-> type, subtype |-> subtype, objectId |-> objectId, value |-> value,
   unserializableValue |-> unserializableValue]

NodeObject(id) == RemoteObject("object", "node", id, "", "")

PlainObject(id) == RemoteObject("object", "", id, "", "")

ArrayObject(id) == RemoteObject("object", "array", id, "", "")

InlineValue == RemoteObject("number", "", 0, "42", "")

Unserializable(tag) == RemoteObject("number", "", 0, "", tag)

\* the {type: 'undefined'} object rewriteError answers with
UndefinedObject == RemoteObject("undefined", "", 0, "", "")

\* valueFromRemoteObject: the tagged number, else the inline value, else undefined
valueFromRemoteObject(remoteObject) ==
  [kind |-> "value",
   value |-> IF remoteObject.unserializableValue # "" THEN remoteObject.unserializableValue
             ELSE IF remoteObject.value # "" THEN remoteObject.value
             ELSE "undefined"]

\* a JSHandle marked with its remote object; element: it is an ElementHandle
Handle(context, remoteObject, element) ==
  [kind |-> "handle", context |-> context, disposed |-> FALSE,
   remoteObject |-> remoteObject, element |-> element]

\* a variant that makes an ElementHandle of every node, frame or not
createJSHandleIgnoringFrame(context, frame, remoteObject) ==
  Handle(context, remoteObject, remoteObject.subtype = "node")

createJSHandle(context, frame, remoteObject) ==
  Handle(context, remoteObject, remoteObject.subtype = "node" /\ frame)

\* ------------------------------------------------------- protocol rejections
\* the message of a rejected request is a sequence of phrases: includes() and
\* endsWith() of the source look for a phrase in it, resp. at its end
ProtocolErrorPrefix == "Protocol error:"

ChainTooLong == "Object reference chain is too long"

NotByValue == "Object couldn't be returned by value"

CannotFindContext == "Cannot find context with specified id"

TargetClosed == "Inspected target navigated or closed"

Phrases == {ProtocolErrorPrefix, ChainTooLong, NotByValue, CannotFindContext,
            TargetClosed}

Messages == {<<a>> : a \in Phrases} \cup {<<a, b>> : a \in Phrases, b \in Phrases}

Includes(message, phrase) == \E i \in DOMAIN message : message[i] = phrase

EndsWith(message, phrase) == Len(message) > 0 /\ message[Len(message)] = phrase

\* what the session answers once the context is destroyed
DestroyedMessages == {<<ProtocolErrorPrefix, CannotFindContext>>,
                      <<ProtocolErrorPrefix, TargetClosed>>}

ContextDestroyedMessage ==
  "Execution context was destroyed, most likely because of a navigation."

DisposedMessage == "JSHandle is disposed!"

CrossContextMessage ==
  "JSHandles can be evaluated only in the context they were created!"

NotSerializableMessage == "Passed function is not well-serializable!"

EvaluationFailedMessage == "Evaluation failed"

WrongArgumentMessage == "Expected to get |string| or |function| as the first argument"

CircularMessage ==
  "Converting circular structure to JSON Are you passing a nested JSHandle?"

\* the session's own error, rethrown as it is
RawProtocolError == "raw protocol error"

Rejection(message) ==
  [rejected |-> TRUE, exceptionDetails |-> FALSE, result |-> UndefinedObject,
   message |-> message]

Answer(exceptionDetails, result) ==
  [rejected |-> FALSE, exceptionDetails |-> exceptionDetails, result |-> result,
   message |-> <<>>]

\* a variant that knows only the message of a closed target
rewriteErrorClosedOnly(message) ==
  IF Includes(message, ChainTooLong)
    THEN [error |-> NoError, response |-> Answer(FALSE, UndefinedObject)]
  ELSE IF Includes(message, NotByValue)
    THEN [error |-> NoError, response |-> Answer(FALSE, UndefinedObject)]
  ELSE IF EndsWith(message, TargetClosed)
    THEN [error |-> ContextDestroyedMessage, response |-> Null]
  ELSE [error |-> RawProtocolError, response |-> Null]

\* a variant that downgrades only the too-long reference chain
rewriteErrorChainOnly(message) ==
  IF Includes(message, ChainTooLong)
    THEN [error |-> NoError, response |-> Answer(FALSE, UndefinedObject)]
  ELSE IF EndsWith(message, CannotFindContext) \/ EndsWith(message, TargetClosed)
    THEN [error |-> ContextDestroyedMessage, response |-> Null]
  ELSE [error |-> RawProtocolError, response |-> Null]

\* rewriteError: the response it returns, or the error it throws
rewriteError(message) ==
  IF Includes(message, ChainTooLong)
    THEN [error |-> NoError, response |-> Answer(FALSE, UndefinedObject)]
  ELSE IF Includes(message, NotByValue)
    THEN [error |-> NoError, response |-> Answer(FALSE, UndefinedObject)]
  ELSE IF EndsWith(message, CannotFindContext) \/ EndsWith(message, TargetClosed)
    THEN [error |-> ContextDestroyedMessage, response |-> Null]
  ELSE [error |-> RawProtocolError, response |-> Null]

\* ------------------------------------------------------------------ evaluate
\* a variant that tests the disposed flag only for object handles
convertArgumentObjectsOnly(arg, context) ==
  IF arg.kind = "bigint"
    THEN [error |-> NoError, payload |-> [unserializableValue |-> "1n"]]
  ELSE IF arg.kind \in {"-0", "Infinity", "-Infinity", "NaN"}
    THEN [error |-> NoError, payload |-> [unserializableValue |-> arg.kind]]
  ELSE IF arg.kind = "handle"
    THEN IF arg.context # context
           THEN [error |-> CrossContextMessage, payload |-> Null]
         ELSE IF arg.remoteObject.unserializableValue # ""
           THEN [error |-> NoError,
                 payload |-> [unserializableValue |-> arg.remoteObject.unserializableValue]]
         ELSE IF arg.remoteObject.objectId = 0
           THEN [error |-> NoError, payload |-> [value |-> arg.remoteObject.value]]
         ELSE IF arg.disposed
           THEN [error |-> DisposedMessage, payload |-> Null]
         ELSE [error |-> NoError, payload |-> [objectId |-> arg.remoteObject.objectId]]
  ELSE [error |-> NoError, payload |-> [value |-> arg.kind]]

\* convertArgument (lines 99-124): the call argument, or the error thrown
convertArgument(arg, context) ==
  IF arg.kind = "bigint"
    THEN [error |-> NoError, payload |-> [unserializableValue |-> "1n"]]
  ELSE IF arg.kind = "-0"
    THEN [error |-> NoError, payload |-> [unserializableValue |-> "-0"]]
  ELSE IF arg.kind = "Infinity"
    THEN [error |-> NoError, payload |-> [unserializableValue |-> "Infinity"]]
  ELSE IF arg.kind = "-Infinity"
    THEN [error |-> NoError, payload |-> [unserializableValue |-> "-Infinity"]]
  ELSE IF arg.kind = "NaN"
    THEN [error |-> NoError, payload |-> [unserializableValue |-> "NaN"]]
  ELSE IF arg.kind = "handle"
    THEN IF arg.context # context
           THEN [error |-> CrossContextMessage, payload |-> Null]
         ELSE IF arg.disposed
           THEN [error |-> DisposedMessage, payload |-> Null]
         ELSE IF arg.remoteObject.unserializableValue # ""
           THEN [error |-> NoError,
                 payload |-> [unserializableValue |-> arg.remoteObject.unserializableValue]]
         ELSE IF arg.remoteObject.objectId = 0
           THEN [error |-> NoError, payload |-> [value |-> arg.remoteObject.value]]
         ELSE [error |-> NoError, payload |-> [objectId |-> arg.remoteObject.objectId]]
  ELSE [error |-> NoError, payload |-> [value |-> arg.kind]]

\* args.map(convertArgument): the first argument that throws ends the map
convertArguments(args, context) ==
  LET converted == [i \in DOMAIN args |-> convertArgument(args[i], context)]
      failed == {i \in DOMAIN args : converted[i].error # NoError}
  IN IF failed = {}
       THEN [error |-> NoError, arguments |-> [i \in DOMAIN args |-> converted[i].payload]]
       ELSE [error |-> converted[CHOOSE i \in failed : \A j \in failed : i <= j].error,
             arguments |-> <<>>]

\* the text of a function is a sequence of tokens; these are the texts that
\* new Function('(' + text + ')') accepts
ParsesAsExpression(text) ==
  text \in {<<"function", "f(){}">>, <<"async", "function", "f(){}">>,
            <<"()=>{}">>, <<"async", "()=>{}">>}

\* lines 68-71 with 'function ' put in front of every text, async or not
ReprefixedPlain(text) == <<"function">> \o text

\* lines 68-71: the one rewrite tried for a text that does not parse
Reprefixed(text) ==
  IF Len(text) > 0 /\ text[1] = "async"
    THEN <<"async", "function">> \o Tail(text)
    ELSE <<"function">> \o text

\* lines 62-78: the text sent, or the error thrown
serializeFunction(text) ==
  IF ParsesAsExpression(text) THEN [error |-> NoError, text |-> text]
  ELSE IF ParsesAsExpression(Reprefixed(text))
    THEN [error |-> NoError, text |-> Reprefixed(text)]
  ELSE [error |-> NotSerializableMessage, text |-> <<>>]

NotSent(error) ==
  [request |-> Null, response |-> Null, outcome |-> error, result |-> Null]

\* lines 53-56 and 94-97: settle the request sent
settleEvaluate(context, frame, returnByValue, request, response) ==
  LET settled == IF response.rejected THEN rewriteError(response.message)
                 ELSE [error |-> NoError, response |-> response]
  IN IF settled.error # NoError
       THEN [request |-> request, response |-> response, outcome |-> settled.error,
             result |-> Null]
     ELSE IF settled.response.exceptionDetails
       THEN [request |-> request, response |-> response,
             outcome |-> EvaluationFailedMessage, result |-> Null]
     ELSE [request |-> request, response |-> response, outcome |-> NoError,
           result |-> IF returnByValue
                        THEN valueFromRemoteObject(settled.response.result)
                        ELSE createJSHandle(context, frame, settled.response.result)]

\* ExecutionContextDelegate.evaluate, given what the session answers if asked
evaluate(context, frame, returnByValue, pageFunction, args, response) ==
  IF pageFunction.type = "string"
    THEN settleEvaluate(context, frame, returnByValue,
           [method |-> "Runtime.evaluate",
            text |-> IF pageFunction.hasSourceURL THEN pageFunction.text
                     ELSE pageFunction.text \o <<"//# sourceURL=">>,
            arguments |-> <<>>, returnByValue |-> returnByValue],
           response)
  ELSE IF pageFunction.type # "function"
    THEN NotSent(WrongArgumentMessage)
  ELSE
    LET serialized == serializeFunction(pageFunction.text)
        converted == convertArguments(args, context)
    IN IF serialized.error # NoError THEN NotSent(serialized.error)
       ELSE IF converted.error # NoError THEN NotSent(converted.error)
       ELSE IF \E i \in DOMAIN args : args[i].kind = "circular"
         THEN NotSent(CircularMessage)
       ELSE settleEvaluate(context, frame, returnByValue,
              [method |-> "Runtime.callFunctionOn",
               text |-> serialized.text \o <<"//# sourceURL=">>,
               arguments |-> converted.arguments, returnByValue |-> returnByValue],
              response)

\* ExecutionContextDelegate.getProperties: no rewriteError on this path
getProperties(context, frame, handle, response) ==
  LET request == [method |-> "Runtime.getProperties", text |-> <<>>,
                  arguments |-> <<[objectId |-> handle.remoteObject.objectId]>>,
                  returnByValue |-> FALSE]
  IN IF response.rejected
       THEN [request |-> request, response |-> response,
             outcome |-> RawProtocolError, result |-> Null]
       ELSE [request |-> request, response |-> response, outcome |-> NoError,
             result |-> [kind |-> "map",
                         entries |-> [i \in DOMAIN SelectSeq(response.properties,
                                                   LAMBDA p : p.enumerable) |->
                                        createJSHandle(context, frame,
                                          SelectSeq(response.properties,
                                                    LAMBDA p : p.enumerable)[i].value)]]]

\* ExecutionContextDelegate.handleJSONValue: no rewriteError on this path
handleJSONValue(handle, response) ==
  IF handle.remoteObject.objectId # 0
    THEN LET request == [method |-> "Runtime.callFunctionOn",
                         text |-> <<"function() { return this; }">>,
                         arguments |-> <<[objectId |-> handle.remoteObject.objectId]>>,
                         returnByValue |-> TRUE]
         IN IF response.rejected
              THEN [request |-> request, response |-> response,
                    outcome |-> RawProtocolError, result |-> Null]
              ELSE [request |-> request, response |-> response, outcome |-> NoError,
                    result |-> valueFromRemoteObject(response.result)]
    ELSE [request |-> Null, response |-> Null, outcome |-> NoError,
          result |-> valueFromRemoteObject(handle.remoteObject)]

\* ------------------------------------------------------------ delegate calls
\* one call of the delegate at a time, against a context that may be destroyed
ValueArg(kind) == [kind |-> kind]

Disposed(handle) == [handle EXCEPT !.disposed = TRUE]

HandleShapes == {PlainObject(1), InlineValue, Unserializable("NaN")}

HandleSamples ==
  {Handle(c, ro, FALSE) : c \in {MainContext, OtherContext}, ro \in HandleShapes}
  \cup {Disposed(Handle(c, ro, FALSE)) :
          c \in {MainContext, OtherContext}, ro \in HandleShapes}

ValueSamples ==
  {ValueArg(k) : k \in {"plain", "bigint", "-0", "Infinity", "-Infinity", "NaN",
                        "circular"}}

\* at most two arguments: enough for one argument to fail ahead of another
FirstOfTwo == {ValueArg("plain"), Handle(MainContext, PlainObject(1), FALSE),
               Handle(OtherContext, PlainObject(1), FALSE),
               Disposed(Handle(MainContext, PlainObject(1), FALSE))}

SecondOfTwo == {h \in HandleSamples : h.disposed /\ h.context = MainContext}
               \cup {Handle(OtherContext, PlainObject(1), FALSE)}

ArgLists == {<<>>} \cup {<<a>> : a \in HandleSamples \cup ValueSamples}
            \cup {<<a, b>> : a \in FirstOfTwo, b \in SecondOfTwo}

PageFunction(type, text, hasSourceURL) ==
  [type |-> type, text |-> text, hasSourceURL |-> hasSourceURL]

FunctionTexts == {<<"function", "f(){}">>, <<"async", "function", "f(){}">>,
                  <<"()=>{}">>, <<"async", "()=>{}">>, <<"f(){}">>,
                  <<"async", "f(){}">>, <<"get", "f(){}">>}

PageFunctions ==
  {PageFunction("string", <<"1 + 1">>, FALSE),
   PageFunction("string", <<"1 + 1", "//# sourceURL=">>, TRUE),
   PageFunction("other", <<>>, FALSE)}
  \cup {PageFunction("function", t, FALSE) : t \in FunctionTexts}

ResultSamples == {NodeObject(1), PlainObject(1), ArrayObject(1), InlineValue,
                  Unserializable("NaN"), UndefinedObject}

EvaluateAnswers == {Answer(FALSE, ro) : ro \in ResultSamples}
                   \cup {Answer(TRUE, UndefinedObject)}
                   \cup {Rejection(m) : m \in Messages}

DestroyedAnswers == {Rejection(m) : m \in DestroyedMessages}

Property(enumerable, value) == [enumerable |-> enumerable, value |-> value]

PropertySamples == {Property(e, v) : e \in BOOLEAN, v \in {NodeObject(2), InlineValue}}

PropertiesAnswer(properties) ==
  [rejected |-> FALSE, exceptionDetails |-> FALSE, result |-> UndefinedObject,
   message |-> <<>>, properties |-> properties]

PropertiesAnswers ==
  {PropertiesAnswer(<<>>)} \cup {PropertiesAnswer(<<p>>) : p \in PropertySamples}
  \cup {PropertiesAnswer(<<p, q>>) : p \in PropertySamples, q \in PropertySamples}
  \cup {Rejection(<<ProtocolErrorPrefix>>)}

JSONValueAnswers == {Answer(FALSE, InlineValue), Answer(FALSE, UndefinedObject),
                     Rejection(<<ProtocolErrorPrefix>>)}

NoCall ==
  [op |-> "none", destroyed |-> FALSE, returnByValue |-> FALSE, pageFunction |-> Null,
   args |-> <<>>, handle |-> Null, request |-> Null, response |-> Null,
   outcome |-> NoError, result |-> Null]

CallIdle == call = NoCall

CallInit ==
  /\ contextFrame \in BOOLEAN
  /\ destroyed = FALSE
  /\ CallIdle

\* the session reports the context gone; nothing brings it back
DestroyContext ==
  /\ ~destroyed
  /\ destroyed' = TRUE
  /\ UNCHANGED <<contextFrame, call>>
  /\ UNCHANGED notCall

CallEvaluate(returnByValue, pageFunction, args, response) ==
  /\ CallIdle
  /\ response \in (IF destroyed THEN DestroyedAnswers ELSE EvaluateAnswers)
  /\ LET done == evaluate(MainContext, contextFrame, returnByValue, pageFunction,
                          args, response)
     IN call' = [op |-> "evaluate", destroyed |-> destroyed,
                 returnByValue |-> returnByValue, pageFunction |-> pageFunction,
                 args |-> args, handle |-> Null, request |-> done.request,
                 response |-> done.response, outcome |-> done.outcome,
                 result |-> done.result]
  /\ UNCHANGED <<contextFrame, destroyed>>
  /\ UNCHANGED notCall

CallGetProperties(handle, response) ==
  /\ CallIdle
  /\ response \in (IF destroyed THEN DestroyedAnswers ELSE PropertiesAnswers)
  /\ LET done == getProperties(handle.context, contextFrame, handle, response)
     IN call' = [op |-> "getProperties", destroyed |-> destroyed,
                 returnByValue |-> FALSE, pageFunction |-> Null, args |-> <<>>,
                 handle |-> handle, request |-> done.request,
                 response |-> done.response, outcome |-> done.outcome,
                 result |-> done.result]
  /\ UNCHANGED <<contextFrame, destroyed>>
  /\ UNCHANGED notCall

CallHandleJSONValue(handle, response) ==
  /\ CallIdle
  /\ response \in (IF destroyed THEN DestroyedAnswers ELSE JSONValueAnswers)
  /\ LET done == handleJSONValue(handle, response)
     IN call' = [op |-> "handleJSONValue", destroyed |-> destroyed,
                 returnByValue |-> TRUE, pageFunction |-> Null, args |-> <<>>,
                 handle |-> handle, request |-> done.request,
                 response |-> done.response, outcome |-> done.outcome,
                 result |-> done.result]
  /\ UNCHANGED <<contextFrame, destroyed>>
  /\ UNCHANGED notCall

\* the caller has taken the result or the error; the next call may start
CallReturn ==
  /\ ~CallIdle
  /\ call' = NoCall
  /\ UNCHANGED <<contextFrame, destroyed>>
  /\ UNCHANGED notCall

OwnHandles == {h \in HandleSamples : h.context = MainContext}

\* inputs are drawn for a call only when none is under way
WhenIdle(inputs) == IF CallIdle THEN inputs ELSE {}

NextCall ==
  \/ DestroyContext
  \/ CallReturn
  \/ \E returnByValue \in WhenIdle(BOOLEAN), pageFunction \in PageFunctions,
        args \in ArgLists, response \in EvaluateAnswers :
       CallEvaluate(returnByValue, pageFunction, args, response)
  \/ \E handle \in WhenIdle(OwnHandles),
        response \in PropertiesAnswers \cup DestroyedAnswers :
       CallGetProperties(handle, response)
  \/ \E handle \in WhenIdle(OwnHandles),
        response \in JSONValueAnswers \cup DestroyedAnswers :
       CallHandleJSONValue(handle, response)

\* ------------------------------------------------------- handles and queries
\* The handles of one frame's context, in the order created; the remote
\* side gives an object the number of the handle made for it.
Root == 1

RootHandle == Handle(MainContext, NodeObject(Root), TRUE)

\* the injected query helper and the selector, passed along with the root
Injected == Handle(MainContext, PlainObject(MaxHandles + 1), FALSE)

QueryFunction == PageFunction("function", <<"()=>{}">>, FALSE)

\* releaseObject of the protocol helper: [requests sent, raised]; a handle
\* without objectId has nothing to release, a rejected request is swallowed
releaseObject(remoteObject, accepted) ==
  [requests |-> IF remoteObject.objectId = 0 THEN 0 ELSE 1, raised |-> FALSE]

\* a variant that releases by itself and through the helper
releaseHandleTwice(handle, accepted) ==
  [requests |-> 2 * releaseObject(handle.remoteObject, accepted).requests,
   raised |-> FALSE]

\* a variant that sends the request itself and lets a rejection through
releaseHandleUncaught(handle, accepted) ==
  [requests |-> IF handle.remoteObject.objectId = 0 THEN 0 ELSE 1,
   raised |-> handle.remoteObject.objectId # 0 /\ ~accepted]

\* ExecutionContextDelegate.releaseHandle
releaseHandle(handle, accepted) == releaseObject(handle.remoteObject, accepted)

\* JSHandle.dispose on handle h of the pool hs, rr counting release requests
dispose(hs, rr, h, accepted) ==
  IF hs[h].disposed
    THEN [handles |-> hs, releaseRequests |-> rr, raised |-> FALSE]
    ELSE [handles |-> [hs EXCEPT ![h].disposed = TRUE],
          releaseRequests |-> [rr EXCEPT ![h] = @ + releaseHandle(hs[h], accepted).requests],
          raised |-> releaseHandle(hs[h], accepted).raised]

Zeros(n) == [i \in 1..n |-> 0]

NotFoundMessage == "Error: failed to find element matching selector"

\* the null querySelector returns when nothing matches
NullValue == RemoteObject("object", "null", 0, "null", "")

\* what the session may answer when the query did not run to its end
QueryFailures == {Answer(TRUE, UndefinedObject),
                  Rejection(<<ProtocolErrorPrefix, CannotFindContext>>),
                  Rejection(<<ProtocolErrorPrefix, ChainTooLong>>)}

\* what the session may answer to querySelector when the next handle is
\* number next: the node found or null
SelectorAnswers(next) ==
  {Answer(FALSE, NodeObject(next)), Answer(FALSE, NullValue)} \cup QueryFailures

\* what it may answer to querySelectorAll: the array
ArrayAnswers(next) == {Answer(FALSE, PlainObject(next))} \cup QueryFailures

\* the own properties of the array as Runtime.getProperties lists them; the
\* handle of the i-th property listed would be number next + i
PropertyLists(next) ==
  {<<>>}
  \cup {<<Property(e, v)>> :
          e \in BOOLEAN, v \in {NodeObject(next + 1), PlainObject(next + 1), InlineValue}}
  \cup {<<Property(TRUE, v), Property(e, w)>> :
          e \in BOOLEAN,
          v \in {NodeObject(next + 1), InlineValue},
          w \in {NodeObject(next + 2), PlainObject(next + 2)}}

QueryPropertiesAnswers(next) ==
  {PropertiesAnswer(p) : p \in PropertyLists(next)}
  \cup {Rejection(<<ProtocolErrorPrefix, CannotFindContext>>)}

AllSelectorAnswers == UNION {SelectorAnswers(next) : next \in 1..MaxHandles}

AllArrayAnswers == UNION {ArrayAnswers(next) : next \in 1..MaxHandles}

AllQueryPropertiesAnswers == UNION {QueryPropertiesAnswers(next) : next \in 1..MaxHandles}

\* what the caller's evaluation is given and answered
CallerFunctions == {QueryFunction, PageFunction("function", <<"get", "f(){}">>, FALSE)}

CallerArgs == {<<>>, <<ValueArg("plain")>>}

CallerAnswers == {Answer(FALSE, InlineValue), Answer(TRUE, UndefinedObject),
                  Rejection(<<ProtocolErrorPrefix, TargetClosed>>)}

\* the operation under way or finished last: pc "done" when it has finished,
\* handle the intermediate handle of a query or the handle disposed
Operation(op, pc, handle, created, returned, outcome) ==
  [op |-> op, pc |-> pc, handle |-> handle, created |-> created,
   returned |-> returned, outcome |-> outcome,
   wasDisposed |-> FALSE, accepted |-> FALSE, raised |-> FALSE]

NoOperation == Operation("none", "done", 0, {}, {}, NoError)

PoolIdle ==
  /\ handles = <<RootHandle>>
  /\ releaseRequests = <<0>>
  /\ held = {Root}
  /\ last = NoOperation

PoolInit == PoolIdle

\* this.evaluateHandle(query, selector, injected) of $, $$, $x and $$eval
evaluateHandle(response) ==
  evaluate(MainContext, TRUE, FALSE, QueryFunction,
           <<handles[Root], ValueArg("plain"), Injected>>, response)

\* ElementHandle.$ up to asElement(), for the caller or for $eval
QuerySelector(op, response) ==
  /\ last.pc = "done"
  /\ Len(handles) < MaxHandles
  /\ response \in SelectorAnswers(Len(handles) + 1)
  /\ LET handle == evaluateHandle(response)
         h == Len(handles) + 1
     IN IF handle.outcome # NoError
          THEN /\ last' = Operation(op, "done", 0, {}, {}, handle.outcome)
               /\ UNCHANGED <<handles, releaseRequests, held>>
          ELSE /\ handles' = Append(handles, handle.result)
               /\ releaseRequests' = Append(releaseRequests, 0)
               /\ IF ~handle.result.element
                    THEN /\ last' = Operation(op, "disposeNull", h, {h}, {}, NoError)
                         /\ UNCHANGED held
                  ELSE IF op = "$"
                    THEN /\ last' = Operation(op, "done", 0, {h}, {h}, NoError)
                         /\ held' = held \cup {h}
                  ELSE /\ last' = Operation(op, "evaluate", h, {h}, {}, NoError)
                       /\ UNCHANGED held
  /\ UNCHANGED notPool

\* ElementHandle.$: no element, the handle is disposed and null returned
QuerySelectorDispose(accepted) ==
  /\ last.op \in {"$", "$eval"}
  /\ last.pc = "disposeNull"
  /\ LET done == dispose(handles, releaseRequests, last.handle, accepted)
     IN /\ handles' = done.handles
        /\ releaseRequests' = done.releaseRequests
        /\ last' = [last EXCEPT !.pc = "done",
                      !.outcome = IF last.op = "$eval" THEN NotFoundMessage
                                  ELSE NoError]
  /\ UNCHANGED held
  /\ UNCHANGED notPool

\* the arrayHandle of ElementHandle.$$, $x and $$eval
QueryAll(op, response) ==
  /\ last.pc = "done"
  /\ Len(handles) < MaxHandles
  /\ response \in ArrayAnswers(Len(handles) + 1)
  /\ LET arrayHandle == evaluateHandle(response)
         h == Len(handles) + 1
     IN IF arrayHandle.outcome # NoError
          THEN /\ last' = Operation(op, "done", 0, {}, {}, arrayHandle.outcome)
               /\ UNCHANGED <<handles, releaseRequests>>
          ELSE /\ handles' = Append(handles, arrayHandle.result)
               /\ releaseRequests' = Append(releaseRequests, 0)
               /\ last' = Operation(op, IF op = "$$eval" THEN "evaluate"
                                        ELSE "getProperties", h, {h}, {}, NoError)
  /\ UNCHANGED held
  /\ UNCHANGED notPool

\* arrayHandle.getProperties() of $$ and $x
QueryAllProperties(response) ==
  /\ last.op \in {"$$", "$x"}
  /\ last.pc = "getProperties"
  /\ response \in QueryPropertiesAnswers(Len(handles))
  /\ LET properties == getProperties(MainContext, TRUE, handles[last.handle], response)
         entries == properties.result.entries
     IN IF properties.outcome # NoError
          THEN /\ last' = [last EXCEPT !.pc = "done", !.outcome = properties.outcome]
               /\ UNCHANGED <<handles, releaseRequests>>
          ELSE /\ Len(handles) + Len(entries) <= MaxHandles
               /\ handles' = handles \o entries
               /\ releaseRequests' = releaseRequests \o Zeros(Len(entries))
               /\ last' = [last EXCEPT !.pc = "dispose",
                             !.created = @ \cup ((Len(handles) + 1)..
                                                 (Len(handles) + Len(entries)))]
  /\ UNCHANGED held
  /\ UNCHANGED notPool

\* arrayHandle.dispose() of $$ and $x, and the elements picked for the result
QueryAllDispose(accepted) ==
  /\ last.op \in {"$$", "$x"}
  /\ last.pc = "dispose"
  /\ LET done == dispose(handles, releaseRequests, last.handle, accepted)
         result == {i \in last.created \ {last.handle} : handles[i].element}
     IN /\ handles' = done.handles
        /\ releaseRequests' = done.releaseRequests
        /\ last' = [last EXCEPT !.pc = "done", !.returned = result]
        /\ held' = held \cup result
  /\ UNCHANGED notPool

\* the caller's evaluation of $eval and $$eval, on the handle found
EvalEvaluate(pageFunction, args, response) ==
  /\ last.op \in {"$eval", "$$eval"}
  /\ last.pc = "evaluate"
  /\ LET result == evaluate(MainContext, TRUE, TRUE, pageFunction,
                            <<handles[last.handle]>> \o args, response)
     IN last' = IF result.outcome # NoError
                  THEN [last EXCEPT !.pc = "done", !.outcome = result.outcome]
                  ELSE [last EXCEPT !.pc = "dispose"]
  /\ UNCHANGED <<handles, releaseRequests, held>>
  /\ UNCHANGED notPool

\* the dispose() that follows the evaluation of $eval and $$eval
EvalDispose(accepted) ==
  /\ last.op \in {"$eval", "$$eval"}
  /\ last.pc = "dispose"
  /\ LET done == dispose(handles, releaseRequests, last.handle, accepted)
     IN /\ handles' = done.handles
        /\ releaseRequests' = done.releaseRequests
        /\ last' = [last EXCEPT !.pc = "done"]
  /\ UNCHANGED held
  /\ UNCHANGED notPool

\* the caller disposes a handle it holds, once or again
Dispose(h, accepted) ==
  /\ last.pc = "done"
  /\ h \in held
  /\ LET done == dispose(handles, releaseRequests, h, accepted)
     IN /\ handles' = done.handles
        /\ releaseRequests' = done.releaseRequests
        /\ last' = [op |-> "dispose", pc |-> "done", handle |-> h, created |-> {},
                    returned |-> {}, outcome |-> NoError,
                    wasDisposed |-> handles[h].disposed, accepted |-> accepted,
                    raised |-> done.raised]
  /\ UNCHANGED held
  /\ UNCHANGED notPool

NextPool ==
  \/ \E op \in {"$", "$eval"}, response \in AllSelectorAnswers :
       QuerySelector(op, response)
  \/ \E accepted \in BOOLEAN : QuerySelectorDispose(accepted)
  \/ \E op \in {"$$", "$x", "$$eval"}, response \in AllArrayAnswers :
       QueryAll(op, response)
  \/ \E response \in AllQueryPropertiesAnswers :
       QueryAllProperties(response)
  \/ \E accepted \in BOOLEAN : QueryAllDispose(accepted)
  \/ \E pageFunction \in CallerFunctions, args \in CallerArgs,
        response \in CallerAnswers :
       EvalEvaluate(pageFunction, args, response)
  \/ \E accepted \in BOOLEAN : EvalDispose(accepted)
  \/ \E h \in 1..MaxHandles, accepted \in BOOLEAN : Dispose(h, accepted)

\* ------------------------------------------------------------ specifications
\* the parts of the model an operation does not touch rest in these states
ShotRest == ShotIdle /\ pageViewport = Null

PtrRest == PtrIdle /\ pressedModifiers = {} /\ elemOrigin = RestOrigin

CallRest == CallIdle /\ contextFrame = TRUE /\ destroyed = FALSE

PoolRest == PoolIdle

ClickRest == ClickIdle

ResolveRest == ResolveIdle

AreaRest == AreaIdle

SelectRest == SelectIdle

KeyRest == KeyIdle

InitShot ==
  /\ ShotInit
  /\ PtrRest /\ CallRest /\ PoolRest /\ ClickRest
  /\ ResolveRest /\ AreaRest /\ SelectRest /\ KeyRest

SpecShot == InitShot /\ [][NextShot]_vars

InitPtr ==
  /\ PtrInit
  /\ ShotRest /\ CallRest /\ PoolRest /\ ClickRest
  /\ ResolveRest /\ AreaRest /\ SelectRest /\ KeyRest

SpecPtr == InitPtr /\ [][NextPtr]_vars

InitCall ==
  /\ CallInit
  /\ ShotRest /\ PtrRest /\ PoolRest /\ ClickRest
  /\ ResolveRest /\ AreaRest /\ SelectRest /\ KeyRest

SpecCall == InitCall /\ [][NextCall]_vars

InitHandles ==
  /\ PoolInit
  /\ ShotRest /\ PtrRest /\ CallRest /\ ClickRest
  /\ ResolveRest /\ AreaRest /\ SelectRest /\ KeyRest

SpecHandles == InitHandles /\ [][NextPool]_vars

InitClick ==
  /\ ClickInit
  /\ ShotRest /\ PtrRest /\ CallRest /\ PoolRest
  /\ ResolveRest /\ AreaRest /\ SelectRest /\ KeyRest

SpecClick == InitClick /\ [][NextClick]_vars

InitResolve ==
  /\ ResolveInit
  /\ ShotRest /\ PtrRest /\ CallRest /\ PoolRest
  /\ ClickRest /\ AreaRest /\ SelectRest /\ KeyRest

SpecResolve == InitResolve /\ [][NextResolve]_vars

InitArea ==
  /\ AreaInit
  /\ ShotRest /\ PtrRest /\ CallRest /\ PoolRest
  /\ ClickRest /\ ResolveRest /\ SelectRest /\ KeyRest

SpecArea == InitArea /\ [][NextArea]_vars

InitSelect ==
  /\ SelectInit
  /\ ShotRest /\ PtrRest /\ CallRest /\ PoolRest
  /\ ClickRest /\ ResolveRest /\ AreaRest /\ KeyRest

SpecSelect == InitSelect /\ [][NextSelect]_vars

InitKeys ==
  /\ KeyInit
  /\ ShotRest /\ PtrRest /\ CallRest /\ PoolRest
  /\ ClickRest /\ ResolveRest /\ AreaRest /\ SelectRest

SpecKeys == InitKeys /\ [][NextKey]_vars

\* -------------------------------------------------------------------- claims
\* C1: if screenshot enlarged the viewport and reached the capture step, then
\* whenever it finishes (image returned or capture rejected) the page has the
\* original viewport again, unless the restoring setViewport itself rejected.
ScreenshotRestoresViewport ==
  (/\ shotPc = "done"
   /\ needsViewportReset
   /\ captureOutcome # "none"
   /\ shotError # "setViewport rejected on restore")
  => pageViewport = viewport

\* ---- pointer action: what the log of one action shows
Count(ev) == Cardinality({i \in DOMAIN ptrLog : ptrLog[i] = ev})

CountIn(evs) == Cardinality({i \in DOMAIN ptrLog : ptrLog[i] \in evs})

GeometryQueries == {"resolveRelativePoint", "clickablePoint"}

\* the documented place of each step: scroll into view, resolve the point
\* (with the induced scroll), apply modifiers, act, restore modifiers
Rank(ev) ==
  IF ev = "scrollIntoView" THEN 1
  ELSE IF ev \in GeometryQueries \cup {"scrollBy"} THEN 2
  ELSE IF ev = "ensureModifiers" THEN 3
  ELSE IF ev \in PointerActions THEN 4
  ELSE 5

Before(i, evs) == \E j \in 1..(i - 1) : ptrLog[j] \in evs

\* C4: a relative point is resolved at most twice and the in-page scroll is
\* issued at most once; a non-zero delta of the first resolution is followed
\* by the scroll and, once that succeeded, by exactly one re-resolution; a
\* delta still non-zero then fails the action with the scroll message.
RelativePointRetryBounded ==
  /\ Count("resolveRelativePoint") <= 2
  /\ Count("scrollBy") <= 1
  /\ (Count("resolveRelativePoint") = 1 /\ r.error = NoError) =>
       ((r.scrollX # 0 \/ r.scrollY # 0) <=>
          (ptrPc = "scrollBy" \/ Count("scrollBy") = 1))
  /\ (Count("scrollBy") = 1 /\ ptrPc # "done") =>
       (Count("resolveRelativePoint") = IF ptrPc = "resolveAgain" THEN 1 ELSE 2)
  /\ (Count("resolveRelativePoint") = 2 /\ r.error = NoError
        /\ (r.scrollX # 0 \/ r.scrollY # 0)) =>
       /\ ptrPc = "done"
       /\ ptrError = "Failed to scroll relative point into viewport"
       /\ CountIn(PointerActions) = 0

RelativePointRetryFails ==
  /\ ptrPc = "done"
  /\ ptrError = "Failed to scroll relative point into viewport"
  /\ Count("resolveRelativePoint") = 2
  /\ Count("scrollBy") = 1

\* C5: the steps of one pointer action are made in the documented order:
\* scroll into view first, then the geometry queries, then the modifiers if
\* requested, then the low-level action, once and with the resolved point,
\* then the restoring of the modifiers.
PointerStepsInOrder ==
  /\ \A i \in DOMAIN ptrLog : \A j \in DOMAIN ptrLog :
        i < j => Rank(ptrLog[i]) <= Rank(ptrLog[j])
  /\ \A i \in DOMAIN ptrLog :
        /\ ptrLog[i] \in GeometryQueries => Before(i, {"scrollIntoView"})
        /\ ptrLog[i] = "ensureModifiers" => Before(i, GeometryQueries)
        /\ ptrLog[i] \in PointerActions =>
              /\ Before(i, GeometryQueries)
              /\ ptrOptions.modifiers.given => Before(i, {"ensureModifiers"})
              /\ ptrLog[i] = ptrAction
              /\ point # Null /\ actionPoint = point
        /\ ptrLog[i] = "restoreModifiers" => Before(i, PointerActions)
  /\ Count("ensureModifiers") <= 1
  /\ CountIn(PointerActions) <= 1
  /\ Count("restoreModifiers") <= 1
  /\ (ptrPc = "done" /\ ptrError = NoError) => CountIn(PointerActions) = 1

PointerActionCompleted ==
  /\ ptrPc = "done"
  /\ ptrError = NoError
  /\ ptrOptions.modifiers.given
  /\ Count("scrollBy") = 1
  /\ Count("restoreModifiers") = 1

\* C6: when modifiers were requested and the pointer action returns, the
\* modifier set captured at the apply step is the one held when the action
\* began, and it is the one held again.
ModifiersRestoredOnSuccess ==
  (ptrPc = "done" /\ ptrError = NoError /\ ptrOptions.modifiers.given) =>
    /\ restoreModifiers.keys = modifiersAtStart
    /\ pressedModifiers = modifiersAtStart

ModifiersChangedAndRestored ==
  /\ ptrPc = "done"
  /\ ptrError = NoError
  /\ ptrOptions.modifiers.given
  /\ ptrOptions.modifiers.keys # modifiersAtStart
  /\ modifiersAtStart # {}

QueryLeaksNoHandle ==
  (last.op \in {"$", "$$", "$x"} /\ last.pc = "done" /\ last.outcome = NoError)
    => \A h \in last.created : h \in last.returned \/ handles[h].disposed

\* C8: when $eval or $$eval has finished after it created its intermediate
\* handle, with a result or with an error, that handle has been disposed.
EvalDisposesIntermediate ==
  (last.op \in {"$eval", "$$eval"} /\ last.pc = "done" /\ last.handle # 0)
    => handles[last.handle].disposed

\* ---- delegate calls
\* C3: a call made after the context was destroyed (an evaluate that gets as
\* far as its request, a getProperties, a handleJSONValue) fails with the
\* context-destroyed error.
DestroyedContextFailsEveryCall ==
  (/\ call.op \in {"evaluate", "getProperties", "handleJSONValue"}
   /\ call.destroyed
   /\ call.op = "evaluate" => call.request # Null)
    => call.outcome = ContextDestroyedMessage

DisposedArgument(arg) == arg.kind = "handle" /\ arg.disposed

ForeignArgument(arg) == arg.kind = "handle" /\ arg.context # MainContext

\* C9, as stated: an evaluate of an expression or of a function that
\* serializes, given a disposed handle among its arguments, fails with
\* 'JSHandle is disposed!', whatever the other inputs.
DisposedArgumentAlwaysFails ==
  (/\ call.op = "evaluate"
   /\ \/ call.pageFunction.type = "string"
      \/ /\ call.pageFunction.type = "function"
         /\ serializeFunction(call.pageFunction.text).error = NoError
   /\ \E i \in DOMAIN call.args : DisposedArgument(call.args[i]))
    => call.outcome = DisposedMessage

\* C9, amended: an evaluate of a function that serializes, given a disposed
\* handle of the evaluating context with no handle of another context ahead of
\* it, fails with 'JSHandle is disposed!' and sends no request, whether the
\* handle holds an objectId, an inline value or an unserializableValue.
DisposedArgumentFailsFunctionCall ==
  (/\ call.op = "evaluate"
   /\ call.pageFunction.type = "function"
   /\ serializeFunction(call.pageFunction.text).error = NoError
   /\ \E i \in DOMAIN call.args :
        /\ DisposedArgument(call.args[i])
        /\ ~ForeignArgument(call.args[i])
        /\ \A j \in 1..(i - 1) : ~ForeignArgument(call.args[j]))
    => (call.outcome = DisposedMessage /\ call.request = Null)

\* a disposed handle without objectId, second of two arguments, was refused
DisposedInlineArgumentRefused ==
  /\ call.op = "evaluate"
  /\ Len(call.args) = 2
  /\ DisposedArgument(call.args[2])
  /\ call.args[2].remoteObject.objectId = 0
  /\ call.outcome = DisposedMessage

\* the request of an evaluate was sent and the session rejected it
EvaluateRejected ==
  call.op = "evaluate" /\ call.response # Null /\ call.response.rejected

EndsAsDestroyed(message) ==
  EndsWith(message, CannotFindContext) \/ EndsWith(message, TargetClosed)

Downgraded(message) ==
  Includes(message, ChainTooLong) \/ Includes(message, NotByValue)

\* C11, as stated: an evaluate whose request is rejected with a message that
\* ends in one of the two context-gone phrases fails with the
\* context-destroyed error.
RejectedAsDestroyedSurfaces ==
  (EvaluateRejected /\ EndsAsDestroyed(call.response.message))
    => call.outcome = ContextDestroyedMessage

\* C11, amended: it does so when the message contains neither of the two
\* phrases that are downgraded to undefined; the raw protocol error never
\* surfaces for a message with such an ending.
RejectedAsDestroyedUnlessDowngraded ==
  (EvaluateRejected /\ EndsAsDestroyed(call.response.message))
    => /\ call.outcome # RawProtocolError
       /\ ~Downgraded(call.response.message)
            => call.outcome = ContextDestroyedMessage

\* a function call was rejected because the target navigated or closed
FunctionCallRejectedAsClosed ==
  /\ EvaluateRejected
  /\ call.pageFunction.type = "function"
  /\ call.response.message = <<ProtocolErrorPrefix, TargetClosed>>
  /\ call.outcome = ContextDestroyedMessage

\* C12: a rejected evaluate whose message contains one of the two downgraded
\* phrases succeeds with undefined (the value, or a handle of the undefined
\* object); every other rejection and every response with exceptionDetails
\* makes evaluate fail.
DowngradeOnlyTwoMessages ==
  (call.op = "evaluate" /\ call.response # Null)
    => IF call.response.rejected /\ Downgraded(call.response.message)
         THEN /\ call.outcome = NoError
              /\ IF call.returnByValue
                   THEN call.result = valueFromRemoteObject(UndefinedObject)
                   ELSE call.result.remoteObject = UndefinedObject
       ELSE (call.response.rejected \/ call.response.exceptionDetails)
              => call.outcome # NoError

\* 'Object couldn't be returned by value' became the value undefined
NotByValueBecameUndefined ==
  /\ EvaluateRejected
  /\ call.returnByValue
  /\ Includes(call.response.message, NotByValue)
  /\ ~Includes(call.response.message, ChainTooLong)
  /\ call.outcome = NoError
  /\ call.result.value = "undefined"

ClickSettled == cpPc = "settled" /\ cpOutcome # Null

\* both requests were answered by the browser, so there are quads to look at
QuadsAndMetricsAnswered ==
  ClickSettled /\ cpBrowser.result # Null /\ cpBrowser.metrics # Null

\* the i-th quad the browser returned, as points clipped to the layout viewport
ClippedQuad(i) ==
  intersectQuadWithViewport(fromProtocolQuad(cpBrowser.result.quads[i]),
                            cpBrowser.metrics.layoutViewport.clientWidth,
                            cpBrowser.metrics.layoutViewport.clientHeight)

LargeEnough(i) == RatGT(computeQuadArea(ClippedQuad(i)), 1)

MeanOfCorners(quad) ==
  [x |-> Rat(quad[1].x + quad[2].x + quad[3].x + quad[4].x, 4),
   y |-> Rat(quad[1].y + quad[2].y + quad[3].y + quad[4].y, 4)]

\* C13: when some returned quad has a viewport-clipped area above 1, the
\* clickable point is the mean of the four (clipped) corners of the first such
\* quad in the browser's order: quads before it of clipped area <= 1 are
\* passed over, and a later quad is never preferred, whatever its area.
FirstLargeQuadCentroid ==
  QuadsAndMetricsAnswered =>
    \A i \in 1..Len(cpBrowser.result.quads) :
      (LargeEnough(i) /\ \A j \in 1..(i - 1) : ~LargeEnough(j))
        => /\ cpOutcome.error = NoError
           /\ cpOutcome.point = MeanOfCorners(ClippedQuad(i))

\* the first quad has clipped area <= 1, the second is the one clicked
SmallQuadPassedOver ==
  /\ QuadsAndMetricsAnswered
  /\ Len(cpBrowser.result.quads) = 2
  /\ ~LargeEnough(1)
  /\ RatGT(computeQuadArea(ClippedQuad(1)), 0)
  /\ LargeEnough(2)
  /\ cpOutcome.point = MeanOfCorners(ClippedQuad(2))
  /\ cpOutcome.point # MeanOfCorners(ClippedQuad(1))

NoQuadToClick ==
  \/ cpBrowser.result = Null
  \/ Len(cpBrowser.result.quads) = 0
  \/ cpBrowser.metrics # Null
       /\ \A i \in 1..Len(cpBrowser.result.quads) : ~LargeEnough(i)

\* C14, as stated: whenever the content-quad request fails, returns no quads,
\* or returns only quads of clipped area <= 1, the clickable point fails with
\* the visibility error and returns no point.
NoQuadMeansVisibilityError ==
  (ClickSettled /\ NoQuadToClick)
    => cpOutcome = [error |-> VisibilityMessage, point |-> Null]

\* C14, amended: in those cases no point is returned, and the error is the
\* visibility error provided the layout-metrics request was answered; when it
\* rejects, its rejection is what the caller gets.
NoQuadMeansVisibilityErrorGivenMetrics ==
  (ClickSettled /\ NoQuadToClick)
    => /\ cpOutcome.point = Null
       /\ cpOutcome.error # NoError
       /\ cpBrowser.metrics # Null => cpOutcome.error = VisibilityMessage

\* only a quad of clipped area exactly 1 came back, and the call failed
UnitQuadNotVisible ==
  /\ QuadsAndMetricsAnswered
  /\ Len(cpBrowser.result.quads) = 1
  /\ computeQuadArea(ClippedQuad(1)) = Num(1)
  /\ cpOutcome = [error |-> VisibilityMessage, point |-> Null]

ArrivalOrders == {<<ContentQuads, LayoutMetrics>>, <<LayoutMetrics, ContentQuads>>}

\* C20: while _clickablePoint waits, both requests have been issued (neither
\* waits for the other's response), and what it returns or throws is what
\* either order of arrival of the two responses would have produced.
ClickablePointOrderIndependent ==
  /\ cpPc = "pending" => cpSent = Requests
  /\ cpArrived # <<>> => cpSent = Requests
  /\ ClickSettled =>
       \A order \in ArrivalOrders : cpOutcome = clickablePointAfter(cpBrowser, order)

\* the layout metrics arrived before the quads, both requests failed
MetricsArrivedFirstBothFailed ==
  /\ ClickSettled
  /\ cpArrived = <<LayoutMetrics, ContentQuads>>
  /\ cpBrowser = NoBrowser
  /\ cpOutcome.error = RejectionOf(LayoutMetrics)

Resolved == rpReturned # Null /\ rpReturned.error = NoError

\* the least x and the least y among the corners of the padding quad
PaddingMinCorner ==
  LET quad == rpArguments.model.model.padding
      xs == {quad[1], quad[3], quad[5], quad[7]}
      ys == {quad[2], quad[4], quad[6], quad[8]}
  IN [x |-> CHOOSE x \in xs : \A other \in xs : x <= other,
      y |-> CHOOSE y \in ys : \A other \in ys : y <= other]

ExpectedPoint ==
  IF rpArguments.model = Null THEN rpArguments.relativePoint
  ELSE [x |-> PaddingMinCorner.x + rpArguments.relativePoint.x,
        y |-> PaddingMinCorner.y + rpArguments.relativePoint.y]

WithinMargins ==
  /\ 1 <= ExpectedPoint.x
  /\ ExpectedPoint.x <= rpArguments.metrics.layoutViewport.clientWidth - 1
  /\ 1 <= ExpectedPoint.y
  /\ ExpectedPoint.y <= rpArguments.metrics.layoutViewport.clientHeight - 1

\* C15: the relative point resolves to the padding quad's minimum corner plus
\* the offset, or to the offset itself when there is no box model, and the
\* scroll delta is (0, 0) whenever that point lies in [1, width - 1] x
\* [1, height - 1] of the layout viewport, the margins included; padding
\* corner (500, 500), offset (5, 5), viewport 800 x 600 gives (505, 505) and
\* delta (0, 0).
RelativePointResolved ==
  /\ Resolved =>
       /\ rpReturned.point = [x |-> Num(ExpectedPoint.x), y |-> Num(ExpectedPoint.y)]
       /\ WithinMargins => rpReturned.scrollX = 0 /\ rpReturned.scrollY = 0
  /\ viewportPointAndScroll(
       [x |-> 5, y |-> 5],
       [model |-> [padding |-> RectQuad(500, 500, 10, 10)]],
       [layoutViewport |-> [clientWidth |-> 800, clientHeight |-> 600]])
       = [error |-> NoError, point |-> [x |-> Num(505), y |-> Num(505)],
          scrollX |-> 0, scrollY |-> 0]

\* a point exactly on the one-pixel margin, measured from a padding quad whose
\* first corner is not its minimum corner, needs no scroll
PointOnMarginNotScrolled ==
  /\ Resolved
  /\ rpArguments.model # Null
  /\ rpArguments.model.model.padding[1] # PaddingMinCorner.x
  /\ ExpectedPoint.x = 1
  /\ ExpectedPoint.y = rpArguments.metrics.layoutViewport.clientHeight - 1
  /\ rpReturned.scrollX = 0
  /\ rpReturned.scrollY = 0

Measured == areaReturned # Null

\* twice the directed area of the triangle a, b, c: 0 when they are on a line
Turn(a, b, c) == (b.x - a.x) * (c.y - a.y) - (b.y - a.y) * (c.x - a.x)

\* the quad with its points taken k places further round
Rotated(quad, k) == [i \in 1..4 |-> quad[((i + k - 1) % 4) + 1]]

AllCollinear(quad) ==
  \A i \in 1..4, j \in 1..4, k \in 1..4 : Turn(quad[i], quad[j], quad[k]) = 0

\* the segments a-b and c-d cross
Crossing(a, b, c, d) ==
  /\ Turn(a, b, c) * Turn(a, b, d) < 0
  /\ Turn(c, d, a) * Turn(c, d, b) < 0

\* four distinct corners, no three of them on a line, opposite sides apart
SimpleQuadrilateral(quad) ==
  /\ \A i \in 1..4, j \in 1..4, k \in 1..4 :
       (i < j /\ j < k) => Turn(quad[i], quad[j], quad[k]) # 0
  /\ ~Crossing(quad[1], quad[2], quad[3], quad[4])
  /\ ~Crossing(quad[2], quad[3], quad[4], quad[1])

UnitSquare ==
  <<[x |-> 0, y |-> 0], [x |-> 1, y |-> 0], [x |-> 1, y |-> 1], [x |-> 0, y |-> 1]>>

\* C18: over quads with integer coordinates in 0..MaxCoord, computeQuadArea
\* returns the same number for the quad and each of its cyclic rotations, 0
\* when the four points lie on one line, a positive number when the quad is a
\* non-degenerate simple quadrilateral, and 1 for the unit square.
QuadAreaProperties ==
  Measured =>
    /\ \A k \in 1..3 : computeQuadArea(Rotated(areaQuad, k)) = areaReturned
    /\ AllCollinear(areaQuad) => areaReturned = Num(0)
    /\ SimpleQuadrilateral(areaQuad) => RatGT(areaReturned, 0)
    /\ areaQuad = UnitSquare => areaReturned = Num(1)

\* a concave quadrilateral, its corners in the order that makes the directed
\* area negative, has been measured: area 1
ClockwiseDartMeasured ==
  /\ Measured
  /\ areaQuad = <<[x |-> 0, y |-> 0], [x |-> 1, y |-> 1],
                  [x |-> 0, y |-> 2], [x |-> 2, y |-> 1]>>
  /\ SimpleQuadrilateral(areaQuad)
  /\ areaReturned = Num(1)

\* an option object whose fields, where present, have the types select asks for
WellTypedOption(v) ==
  /\ v.type = "object"
  /\ ~v.element
  /\ v.value = Undefined \/ v.value.type = "string"
  /\ v.label = Undefined \/ v.label.type = "string"
  /\ v.index = Undefined \/ v.index.type = "number"

\* what the argument is to become: {value} of a string, {index} of a number,
\* the object itself otherwise
NormalizedOption(v) ==
  IF v.type = "string"
    THEN SelectOption(Primitive(v.type, v.text), Undefined, Undefined)
  ELSE IF v.type = "number"
    THEN SelectOption(Undefined, Undefined, Primitive(v.type, v.text))
  ELSE v

SelectScenario ==
  <<PrimitiveValue(StringB), SelectOption(Undefined, StringSecond, Undefined),
    PrimitiveValue(NumberTwo)>>

\* C16: select called with strings, numbers and well-typed option objects
\* evaluates the in-page routine with {value: s} for a string s, {index: n}
\* for a number n and each object as it was given, so that
\* ["b", {label: "Second"}, 2] becomes [{value: "b"}, {label: "Second"},
\* {index: 2}]; an option object whose value is not a string is refused with
\* an error naming the value and its type, and the in-page routine is not run.
SelectNormalizesArguments ==
  selectDone =>
    /\ (\A i \in 1..Len(selectValues) :
          \/ selectValues[i].type \in {"string", "number"}
          \/ WellTypedOption(selectValues[i]))
         => /\ selectOutcome.evaluated
            /\ selectOutcome.options =
                 [i \in 1..Len(selectValues) |-> NormalizedOption(selectValues[i])]
    /\ (\E i \in 1..Len(selectValues) :
          /\ selectValues[i].type = "object"
          /\ ~selectValues[i].element
          /\ selectValues[i].value # Undefined
          /\ selectValues[i].value.type # "string")
         => /\ ~selectOutcome.evaluated
            /\ selectOutcome.error # NoAssertionError

\* the handle is of the kind createJSHandle owes the descriptor in this
\* context, and is marked with the descriptor
CreatedFrom(handle, descriptor) ==
  /\ handle.kind = "handle"
  /\ handle.element = (descriptor.subtype = "node" /\ contextFrame)
  /\ handle.remoteObject = descriptor
  /\ handle.context = MainContext

\* the descriptor evaluate hands to createJSHandle: the response's result, or
\* the undefined object a downgraded rejection is answered with
EvaluatedDescriptor ==
  IF call.response.rejected THEN UndefinedObject ELSE call.response.result

EnumerableProperties == SelectSeq(call.response.properties, LAMBDA p : p.enumerable)

\* C17: every handle evaluate and getProperties create is an ElementHandle
\* exactly when the descriptor's subtype is 'node' and the context has a
\* frame, a plain JSHandle otherwise (a node without a frame, any other
\* subtype with or without one), and carries the descriptor it was made from.
ElementHandleOnlyForNodeInFrame ==
  /\ (call.op = "evaluate" /\ call.outcome = NoError /\ ~call.returnByValue)
       => CreatedFrom(call.result, EvaluatedDescriptor)
  /\ (call.op = "getProperties" /\ call.outcome = NoError)
       => /\ Len(call.result.entries) = Len(EnumerableProperties)
          /\ \A i \in 1..Len(EnumerableProperties) :
               CreatedFrom(call.result.entries[i], EnumerableProperties[i].value)

\* a node came back in a context without a frame: a plain JSHandle
NodeWithoutFrameIsPlainHandle ==
  /\ call.op = "evaluate"
  /\ call.outcome = NoError
  /\ ~call.returnByValue
  /\ ~contextFrame
  /\ call.response.result.subtype = "node"
  /\ ~call.result.element
  /\ call.result.remoteObject = call.response.result

\* the steps _performPointerAction takes before the low-level action
SubSteps ==
  {"scrollIntoView", "resolveRelativePoint", "scrollBy", "clickablePoint",
   "ensureModifiers"}

LastStep == ptrLog[Len(ptrLog)]

\* C19: when the step a pointer action has just taken is one of its sub-steps
\* (scroll into view, resolving the relative point, the induced in-page
\* scroll, computing the clickable point, applying the modifiers) and it
\* failed, the pointer action is over with that error and the low-level
\* action has not been invoked, nor will it be.
FailedSubStepFailsAction ==
  (ptrLog # <<>> /\ LastStep \in SubSteps /\ ptrError # NoError)
    => /\ ptrPc = "done"
       /\ \A i \in DOMAIN ptrLog : ptrLog[i] \notin PointerActions
       /\ actionPoint = Null

\* the point was computed, then the modifiers could not be applied
ModifiersFailedBeforeAction ==
  /\ ptrPc = "done"
  /\ ptrLog # <<>>
  /\ LastStep = "ensureModifiers"
  /\ ptrError = "_ensureModifiers rejected"
  /\ point # Null
  /\ actionPoint = Null

PointReturned == ClickSettled /\ cpOutcome.error = NoError

\* C23: every point _clickablePoint returns lies in the layout viewport,
\* 0 <= x <= clientWidth and 0 <= y <= clientHeight, whatever quads the browser
\* reported, those reaching outside the viewport included.
ClickablePointInViewport ==
  PointReturned =>
    LET p == cpOutcome.point
        clientWidth == cpBrowser.metrics.layoutViewport.clientWidth
        clientHeight == cpBrowser.metrics.layoutViewport.clientHeight
    IN /\ 0 <= p.x.n /\ p.x.n <= clientWidth * p.x.d
       /\ 0 <= p.y.n /\ p.y.n <= clientHeight * p.y.d

\* the quad clicked reaches past the viewport, and the mean of the corners the
\* browser reported is itself off the viewport
QuadCentreOffViewportClicked ==
  /\ PointReturned
  /\ Len(cpBrowser.result.quads) = 1
  /\ LET quad == cpBrowser.result.quads[1]
     IN quad[1] + quad[3] + quad[5] + quad[7]
          > 4 * cpBrowser.metrics.layoutViewport.clientWidth
  /\ cpOutcome.point.x.n <= cpBrowser.metrics.layoutViewport.clientWidth * cpOutcome.point.x.d

KeyboardCalled == \E i \in DOMAIN keyLog : keyLog[i] \in KeyboardMethods

FillMessages == FillResults \ {"false", "rejected"}

\* C21: in fill, type and press the element is focused before the keyboard
\* is used, and the keyboard is not used once an earlier step has failed:
\* fill with a value that is no string fails with no request made, fill whose
\* in-page routine returns a message raises that message with no focus and no
\* typing, and a failed focus ends the operation before the keyboard.
FocusBeforeKeyboard ==
  /\ \A i \in DOMAIN keyLog :
       keyLog[i] \in KeyboardMethods => \E j \in 1..(i - 1) : keyLog[j] = "focus"
  /\ (keyError # NoError /\ (keyLog = <<>> \/ keyLog[Len(keyLog)] \notin KeyboardMethods))
       => keyPc = "done" /\ ~KeyboardCalled
  /\ (keyOp = "fill" /\ keyValue.type # "string")
       => keyPc = "done" /\ keyError = ValueMustBeString /\ keyLog = <<>>
  /\ (keyOp = "fill" /\ fillResult \in FillMessages)
       => keyPc = "done" /\ keyError = fillResult /\ keyLog = <<"fillFunction">>
  /\ (keyLog # <<>> /\ keyLog[Len(keyLog)] = "focus" /\ keyError # NoError)
       => keyPc = "done" /\ ~KeyboardCalled

\* fill's in-page routine found the element not fillable
FillRefusedByPage ==
  /\ keyOp = "fill"
  /\ keyValue.type = "string"
  /\ fillResult \in FillMessages
  /\ keyError = fillResult
  /\ keyLog = <<"fillFunction">>

FunctionGiven ==
  call.op = "evaluate" /\ call.pageFunction # Null /\ call.pageFunction.type = "function"

SourceText == call.pageFunction.text

\* the text rebuilt as a function declaration: 'async function ' in place of a
\* leading 'async ', else 'function ' in front
DeclarationForm ==
  IF Len(SourceText) > 0 /\ SourceText[1] = "async"
    THEN <<"async", "function">> \o Tail(SourceText)
    ELSE <<"function">> \o SourceText

ArgumentsRefused ==
  call.outcome \in {DisposedMessage, CrossContextMessage, CircularMessage}

\* C22: evaluate given a function sends Runtime.callFunctionOn with the
\* function's own text when that parses as an expression, else with the text
\* rebuilt as a function declaration when that parses (one rewrite, of one of
\* the two forms), the sourceURL comment after it; when neither parses it
\* fails with 'Passed function is not well-serializable!' and sends nothing.
\* A text that can be sent is sent unless an argument is refused.
FunctionTextSentOrRefused ==
  FunctionGiven =>
    /\ call.request # Null =>
         /\ call.request.method = "Runtime.callFunctionOn"
         /\ call.request.text =
              (IF ParsesAsExpression(SourceText) THEN SourceText ELSE DeclarationForm)
                \o <<"//# sourceURL=">>
         /\ ParsesAsExpression(SubSeq(call.request.text, 1, Len(call.request.text) - 1))
    /\ (~ParsesAsExpression(SourceText) /\ ~ParsesAsExpression(DeclarationForm))
         => call.request = Null /\ call.outcome = NotSerializableMessage
    /\ (ParsesAsExpression(SourceText) \/ ParsesAsExpression(DeclarationForm))
         => /\ call.outcome # NotSerializableMessage
            /\ ~ArgumentsRefused => call.request # Null

\* an async method shorthand went out as an async function declaration
AsyncShorthandSentAsDeclaration ==
  /\ FunctionGiven
  /\ SourceText = <<"async", "f(){}">>
  /\ call.request # Null
  /\ call.request.text = <<"async", "function", "f(){}", "//# sourceURL=">>

====
